---- MODULE Spec2Model ----
(***************************************************************************)
(* Lifecycle core of the assignment submission / evaluation backend:       *)
(* the submissions, evaluations and AI routes over the document store.     *)
(* Every await on the store or on the feedback engine is one atomic step   *)
(* of a request handler; handlers of different requests interleave at      *)
(* these steps.                                                            *)
(***************************************************************************)
EXTENDS Integers, FiniteSets, Sequences, TLC

\* ---------------------------------------------------------------- bounds
\* number of requests issued in one behaviour
MaxRequests == 3

\* request handlers that may be in flight at the same time
Slots == {1, 2}
\* submission ids handed out by uuidv4()
SubIds == {"sub1"}

\* a field that is absent / a JavaScript undefined
Undefined == "undefined"
\* an absent numeric field
NoNumber == 0 - 1

\* ---------------------------------------------------------------- types
UserRole == {"student", "teacher", "admin"}

SubmissionStatus == {"draft", "submitted", "under_review", "evaluated", "returned"}

EvaluationStatus == {"pending", "in_progress", "completed"}

\* the users collection: uid and the role stored for it
Users ==
  { [uid |-> "s1", role |-> "student"],
    [uid |-> "s2", role |-> "student"],
    [uid |-> "t1", role |-> "teacher"],
    [uid |-> "t2", role |-> "teacher"],
    [uid |-> "ad", role |-> "admin"] }

\* text bodies a request may carry ("" is the empty string)
Contents == {"", "a", "b"}

RubricIds == {"r1"}

\* a submission document; exists = FALSE stands for "no such document"
NoSubmission ==
  [exists |-> FALSE, studentId |-> Undefined, content |-> Undefined,
   status |-> Undefined, currentVersion |-> 0, rubricId |-> Undefined,
   submittedAt |-> FALSE]

\* an evaluation document
NoEvaluation ==
  [exists |-> FALSE, submissionId |-> Undefined, submissionVersion |-> 0,
   rubricId |-> Undefined, evaluatorId |-> Undefined,
   evaluatorType |-> Undefined, status |-> Undefined,
   grammarFeedback |-> Undefined, overallFeedback |-> Undefined,
   suggestions |-> <<>>, totalScore |-> NoNumber,
   maxPossibleScore |-> NoNumber, percentageScore |-> NoNumber,
   completedAt |-> FALSE]

NoSubmissionPatch == [content |-> Undefined, status |-> Undefined]

\* bodies of PUT /api/submissions/:id (title, description and rubricId are
\* patched the same way as status and are left out)
UpdateSubmissionDTO ==
  [content : {Undefined} \cup Contents, status : {Undefined}]
  \cup [content : {Undefined}, status : SubmissionStatus]
  \cup [content : {"b"}, status : {"submitted"}]

NoEvaluationPatch ==
  [status |-> Undefined, overallFeedback |-> Undefined, totalScore |-> NoNumber]

\* a rubric document; a criterion is kept as its weight
NoRubric == [exists |-> FALSE, teacherId |-> Undefined, title |-> Undefined, criteria |-> <<>>]

\* an absent criteria field
NoCriteria == <<NoNumber>>

NoRubricPatch == [title |-> Undefined, criteria |-> NoCriteria]

\* the longest criteria list a request carries
MaxCriteria == 2

\* the weights a criterion of a request carries
Weights == {0, 50, 100}

CriteriaLists == UNION {[1..n -> Weights] : n \in 0..MaxCriteria}

\* bodies of POST /api/rubrics
CreateRubricDTO ==
  [title : {"T"}, criteria : {NoCriteria} \cup CriteriaLists]
  \cup [title : {Undefined}, criteria : {<<100>>}]

\* bodies of PUT /api/rubrics/:id (description and isPublic are patched the
\* same way as title and are left out)
UpdateRubricDTO ==
  [title : {Undefined}, criteria : {NoCriteria} \cup CriteriaLists]
  \cup [title : {"T"}, criteria : {NoCriteria, <<100>>}]

\* bodies of PUT /api/evaluations/:id (the other feedback texts are patched
\* the same way as overallFeedback and are left out)
UpdateEvaluationDTO ==
  [status : {Undefined} \cup EvaluationStatus,
   overallFeedback : {Undefined, "fb"}, totalScore : {NoNumber}]
  \cup [status : {Undefined}, overallFeedback : {Undefined}, totalScore : {50}]

\* the query string of GET /api/evaluations with the defaults page = 1, limit = 10
NoQuery ==
  [submissionId |-> Undefined, evaluatorType |-> Undefined, status |-> Undefined,
   page |-> 1, limit |-> 10]

\* query strings of GET /api/evaluations
EvaluationQueries ==
  [submissionId : {Undefined} \cup SubIds, evaluatorType : {Undefined, "ai"},
   status : {Undefined, "pending"}, page : {1}, limit : {10}]
  \cup [submissionId : {Undefined}, evaluatorType : {Undefined}, status : {Undefined},
        page : {1, 2}, limit : {1}]

\* no result yet
NoScore == [score |-> NoNumber, max |-> NoNumber]

\* no call of calculateScore
NoScoring == [w |-> 1, p |-> 0, s |-> 0, result |-> NoScore]

\* ---------------------------------------------------------------- state
VARIABLES
  subs,      \* submissions collection: SubIds -> submission document
  vers,      \* versions subcollections: set of version documents
  nextVer,   \* number of version documents added so far (auto ids)
  evals,     \* evaluations collection: sequence, the id is the index
  pc,        \* per handler slot: the await the handler is suspended at
  req,       \* per handler slot: the request being served
  loc,       \* per handler slot: the handler's local variables
  last,      \* the most recent response sent to a client
  issued,    \* ids uuidv4() has handed out
  nreq,      \* number of requests issued
  rubrics,   \* rubrics collection: RubricIds -> rubric document
  scoring    \* a call of calculateScore: the counts of its text and its result

vars == <<subs, vers, nextVer, evals, pc, req, loc, last, issued, nreq, rubrics,
          scoring>>

\* what a suspended handler still reads of its request
IdleReq ==
  [op |-> "none", uid |-> Undefined, content |-> Undefined,
   patch |-> NoSubmissionPatch, epatch |-> NoEvaluationPatch,
   evaluatorType |-> Undefined, rubricId |-> Undefined,
   overallFeedback |-> Undefined, rpatch |-> NoRubricPatch, query |-> NoQuery]

IdleLoc ==
  [submissionId |-> Undefined, submission |-> NoSubmission,
   evaluationId |-> 0, evaluation |-> NoEvaluation, versionIds |-> {},
   evaluations |-> {}]

\* data and total are the ids of the evaluations a read route returns and the
\* pagination total; to is the caller they are sent to
NoResponse ==
  [op |-> "none", code |-> "none", evaluationId |-> 0,
   status |-> Undefined, hasResults |-> FALSE, to |-> Undefined,
   data |-> {}, total |-> 0]

\* a stored submission in the given status with its version 1
StoredSubmission(status) ==
  [exists |-> TRUE, studentId |-> "s1", content |-> "a", status |-> status,
   currentVersion |-> 1, rubricId |-> Undefined,
   submittedAt |-> (status # "draft")]

\* The server starts on whatever the document store holds: no submission,
\* or one submission of student s1 (any status) with its first version.
Init ==
  /\ \/ /\ subs = [s \in SubIds |-> NoSubmission]
        /\ vers = {}
        /\ nextVer = 0
        /\ issued = {}
     \/ \E status \in SubmissionStatus :
          /\ subs = [s \in SubIds |-> StoredSubmission(status)]
          /\ vers = {[id |-> 1, submissionId |-> "sub1", version |-> 1, content |-> "a"]}
          /\ nextVer = 1
          /\ issued = SubIds
  /\ evals = <<>>
  /\ pc = [h \in Slots |-> "idle"]
  /\ req = [h \in Slots |-> IdleReq]
  /\ loc = [h \in Slots |-> IdleLoc]
  /\ last = NoResponse
  /\ nreq = 0
  /\ rubrics = [r \in RubricIds |-> NoRubric]
  /\ scoring = NoScoring

\* ---------------------------------------------------------------- helpers
\* the labels at which a handler runs after its response has been sent
Background == {"ai_engine", "ai_markEvaluated", "ai_catch", "ai_revert"}

\* no request is between its arrival and its response
Quiet == \A g \in Slots : pc[g] \in Background \cup {"idle"}

\* A free handler (the lowest free slot) takes the next request. With
\* in.serial the requests are served one at a time: a request arrives only
\* when every earlier request has been answered.
Accept(h, in) ==
  /\ pc[h] = "idle"
  /\ \A g \in Slots : g < h => pc[g] # "idle"
  /\ in.serial => Quiet
  /\ nreq < MaxRequests
  /\ nreq' = nreq + 1

\* The continuation of an AI evaluate after its response resumes at label.
\* With in.serial it resumes between requests, not in the middle of one.
Resume(h, in, label) ==
  /\ pc[h] = label
  /\ in.serial => Quiet

\* res.status(..).json(..): the handler answers and ends
Answer(h, op, code) ==
  /\ last' = [NoResponse EXCEPT !.op = op, !.code = code]
  /\ pc' = [pc EXCEPT ![h] = "idle"]
  /\ req' = [req EXCEPT ![h] = IdleReq]
  /\ loc' = [loc EXCEPT ![h] = IdleLoc]
  /\ UNCHANGED scoring

\* the answer of a handler that has not written to the rubrics collection
Respond(h, op, code) ==
  /\ Answer(h, op, code)
  /\ UNCHANGED rubrics

\* the handler suspends at its next await
Goto(h, label, r, l) ==
  /\ pc' = [pc EXCEPT ![h] = label]
  /\ req' = [req EXCEPT ![h] = r]
  /\ loc' = [loc EXCEPT ![h] = l]
  /\ UNCHANGED <<rubrics, scoring>>

VersionsOf(sid) == {v \in vers : v.submissionId = sid}

\* docRef.update(data) rejects when the document does not exist
CanUpdate(sid) == subs[sid].exists

EvalIds == 1..Len(evals)

\* ------------------------------------------------------ submissions routes
\* POST /api/submissions: requireRole, validation, submissions.doc(id).set
CreateSubmission_Set(h, in, actor, title, content, rubricId) ==
  /\ Accept(h, in)
  /\ UNCHANGED <<vers, nextVer, evals>>
  /\ IF actor.role # "student"
     THEN Respond(h, "createSubmission", "PermissionDenied") /\ UNCHANGED <<subs, issued>>
     ELSE IF title = Undefined \/ content = ""
     THEN Respond(h, "createSubmission", "ValidationError") /\ UNCHANGED <<subs, issued>>
     ELSE \E sid \in SubIds \ issued :
            /\ issued' = issued \cup {sid}
            /\ subs' = [subs EXCEPT ![sid] =
                 [exists |-> TRUE, studentId |-> actor.uid, content |-> content,
                  status |-> "draft", currentVersion |-> 1,
                  rubricId |-> rubricId, submittedAt |-> FALSE]]
            /\ Goto(h, "create_addVersion",
                    [IdleReq EXCEPT !.op = "createSubmission", !.content = content],
                    [IdleLoc EXCEPT !.submissionId = sid])
            /\ UNCHANGED last

\* POST /api/submissions: versions.add(version 1), then the 201 response
CreateSubmission_AddVersion(h) ==
  /\ pc[h] = "create_addVersion"
  /\ vers' = vers \cup {[id |-> nextVer + 1, submissionId |-> loc[h].submissionId,
                          version |-> 1, content |-> req[h].content]}
  /\ nextVer' = nextVer + 1
  /\ Respond(h, "createSubmission", "ok")
  /\ UNCHANGED <<subs, evals, issued, nreq>>

\* the test without the comparison with the stored content
ContentChanged_AnyContent(patch, submission) ==
  /\ patch.content # Undefined
  /\ patch.content # ""

\* PUT /api/submissions/:id: "updates.content && updates.content !== submission.content"
ContentChanged(patch, submission) ==
  /\ patch.content # Undefined
  /\ patch.content # ""
  /\ patch.content # submission.content

\* the status check with returned left out
Editable_DraftOnly(status) == status = "draft"

\* the status check with evaluated let through as well
Editable_AlsoEvaluated(status) == status \in {"draft", "returned", "evaluated"}

\* PUT, DELETE /api/submissions/:id: the status check applied to students
Editable(status) == status \in {"draft", "returned"}

\* PUT /api/submissions/:id: docRef.get() and the permission checks
UpdateSubmission_Get(h, in, actor, sid, patch) ==
  /\ Accept(h, in)
  /\ UNCHANGED <<subs, vers, nextVer, evals, issued>>
  /\ IF ~subs[sid].exists
     THEN Respond(h, "updateSubmission", "NotFound")
     ELSE IF actor.role = "student" /\ subs[sid].studentId # actor.uid
     THEN Respond(h, "updateSubmission", "PermissionDenied")
     ELSE IF actor.role = "student" /\ ~Editable(subs[sid].status)
     THEN Respond(h, "updateSubmission", "InvalidStateTransition")
     ELSE /\ Goto(h, IF ContentChanged(patch, subs[sid])
                     THEN "updateSubmission_addVersion"
                     ELSE "updateSubmission_update",
                  [IdleReq EXCEPT !.op = "updateSubmission", !.patch = patch],
                  [IdleLoc EXCEPT !.submissionId = sid, !.submission = subs[sid]])
          /\ UNCHANGED last

\* PUT /api/submissions/:id: docRef.collection('versions').add(version)
UpdateSubmission_AddVersion(h) ==
  /\ pc[h] = "updateSubmission_addVersion"
  /\ vers' = vers \cup {[id |-> nextVer + 1, submissionId |-> loc[h].submissionId,
                          version |-> loc[h].submission.currentVersion + 1,
                          content |-> req[h].patch.content]}
  /\ nextVer' = nextVer + 1
  /\ Goto(h, "updateSubmission_update", req[h], loc[h])
  /\ UNCHANGED <<subs, evals, last, issued, nreq>>

\* the updateData object PUT /api/submissions/:id writes over the stored document
UpdateData(doc, patch, submission) ==
  [doc EXCEPT
     !.content = IF patch.content # Undefined THEN patch.content ELSE @,
     !.status = IF patch.status # Undefined THEN patch.status ELSE @,
     !.currentVersion = IF ContentChanged(patch, submission)
                        THEN submission.currentVersion + 1 ELSE @,
     !.submittedAt = IF patch.status = "submitted" /\ submission.status # "submitted"
                     THEN TRUE ELSE @]

\* PUT /api/submissions/:id: docRef.update(updateData), then the response
UpdateSubmission_Update(h) ==
  /\ pc[h] = "updateSubmission_update"
  /\ IF CanUpdate(loc[h].submissionId)
     THEN /\ subs' = [subs EXCEPT ![loc[h].submissionId] =
                        UpdateData(@, req[h].patch, loc[h].submission)]
          /\ Respond(h, "updateSubmission", "ok")
     ELSE /\ UNCHANGED subs
          /\ Respond(h, "updateSubmission", "error")
  /\ UNCHANGED <<vers, nextVer, evals, issued, nreq>>

\* POST /api/submissions/:id/submit: requireRole, docRef.get() and the checks
SubmitSubmission_Get(h, in, actor, sid) ==
  /\ Accept(h, in)
  /\ UNCHANGED <<subs, vers, nextVer, evals, issued>>
  /\ IF actor.role # "student"
     THEN Respond(h, "submitSubmission", "PermissionDenied")
     ELSE IF ~subs[sid].exists
     THEN Respond(h, "submitSubmission", "NotFound")
     ELSE IF subs[sid].studentId # actor.uid
     THEN Respond(h, "submitSubmission", "PermissionDenied")
     ELSE IF ~Editable(subs[sid].status)
     THEN Respond(h, "submitSubmission", "InvalidStateTransition")
     ELSE /\ Goto(h, "submitSubmission_update",
                  [IdleReq EXCEPT !.op = "submitSubmission"],
                  [IdleLoc EXCEPT !.submissionId = sid, !.submission = subs[sid]])
          /\ UNCHANGED last

\* POST /api/submissions/:id/submit: docRef.update(status submitted)
SubmitSubmission_Update(h) ==
  /\ pc[h] = "submitSubmission_update"
  /\ IF CanUpdate(loc[h].submissionId)
     THEN /\ subs' = [subs EXCEPT ![loc[h].submissionId].status = "submitted",
                                  ![loc[h].submissionId].submittedAt = TRUE]
          /\ Respond(h, "submitSubmission", "ok")
     ELSE /\ UNCHANGED subs
          /\ Respond(h, "submitSubmission", "error")
  /\ UNCHANGED <<vers, nextVer, evals, issued, nreq>>

\* DELETE /api/submissions/:id: docRef.get() and the permission checks
DeleteSubmission_Get(h, in, actor, sid) ==
  /\ Accept(h, in)
  /\ UNCHANGED <<subs, vers, nextVer, evals, issued>>
  /\ IF ~subs[sid].exists
     THEN Respond(h, "deleteSubmission", "NotFound")
     ELSE IF actor.role = "student" /\ subs[sid].studentId # actor.uid
     THEN Respond(h, "deleteSubmission", "PermissionDenied")
     ELSE IF actor.role = "student" /\ subs[sid].status # "draft"
     THEN Respond(h, "deleteSubmission", "InvalidStateTransition")
     ELSE /\ Goto(h, "deleteSubmission_versions",
                  [IdleReq EXCEPT !.op = "deleteSubmission"],
                  [IdleLoc EXCEPT !.submissionId = sid, !.submission = subs[sid]])
          /\ UNCHANGED last

\* DELETE /api/submissions/:id: docRef.collection('versions').get()
DeleteSubmission_Versions(h) ==
  /\ pc[h] = "deleteSubmission_versions"
  /\ Goto(h, "deleteSubmission_commit", req[h],
          [loc[h] EXCEPT !.versionIds = {v.id : v \in VersionsOf(loc[h].submissionId)}])
  /\ UNCHANGED <<subs, vers, nextVer, evals, last, issued, nreq>>

\* DELETE /api/submissions/:id: batch.commit() of the version deletes and the doc delete
DeleteSubmission_Commit(h) ==
  /\ pc[h] = "deleteSubmission_commit"
  /\ vers' = {v \in vers : v.id \notin loc[h].versionIds}
  /\ subs' = [subs EXCEPT ![loc[h].submissionId] = NoSubmission]
  /\ Respond(h, "deleteSubmission", "ok")
  /\ UNCHANGED <<nextVer, evals, issued, nreq>>

\* ------------------------------------------------------ evaluations routes
\* the existingEval query with in_progress left out of the status filter
NonTerminal_PendingOnly(sid, evaluatorType) ==
  {e \in EvalIds : /\ evals[e].submissionId = sid
                   /\ evals[e].evaluatorType = evaluatorType
                   /\ evals[e].status = "pending"}

\* the query .where(submissionId).where(evaluatorType).where(status in [pending, in_progress])
NonTerminal(sid, evaluatorType) ==
  {e \in EvalIds : /\ evals[e].submissionId = sid
                   /\ evals[e].evaluatorType = evaluatorType
                   /\ evals[e].status \in {"pending", "in_progress"}}

\* the first step of POST /api/evaluations without the draft check
StartEvaluation_GetSubmission_NoDraftCheck(h, in, actor, sid, evaluatorType, rubricId) ==
  /\ Accept(h, in)
  /\ UNCHANGED <<subs, vers, nextVer, evals, issued>>
  /\ IF actor.role \notin {"teacher", "admin"}
     THEN Respond(h, "startEvaluation", "PermissionDenied")
     ELSE IF ~subs[sid].exists
     THEN Respond(h, "startEvaluation", "NotFound")
     ELSE /\ Goto(h, "startEvaluation_query",
                  [IdleReq EXCEPT !.op = "startEvaluation", !.uid = actor.uid,
                                  !.evaluatorType = evaluatorType, !.rubricId = rubricId],
                  [IdleLoc EXCEPT !.submissionId = sid, !.submission = subs[sid]])
          /\ UNCHANGED last

\* POST /api/evaluations: requireRole, submissions.doc(id).get(), the draft check
StartEvaluation_GetSubmission(h, in, actor, sid, evaluatorType, rubricId) ==
  /\ Accept(h, in)
  /\ UNCHANGED <<subs, vers, nextVer, evals, issued>>
  /\ IF actor.role \notin {"teacher", "admin"}
     THEN Respond(h, "startEvaluation", "PermissionDenied")
     ELSE IF ~subs[sid].exists
     THEN Respond(h, "startEvaluation", "NotFound")
     ELSE IF subs[sid].status = "draft"
     THEN Respond(h, "startEvaluation", "InvalidStateTransition")
     ELSE /\ Goto(h, "startEvaluation_query",
                  [IdleReq EXCEPT !.op = "startEvaluation", !.uid = actor.uid,
                                  !.evaluatorType = evaluatorType, !.rubricId = rubricId],
                  [IdleLoc EXCEPT !.submissionId = sid, !.submission = subs[sid]])
          /\ UNCHANGED last

\* POST /api/evaluations: the existingEval query and the conflict answer
StartEvaluation_Query(h) ==
  /\ pc[h] = "startEvaluation_query"
  /\ IF NonTerminal(loc[h].submissionId, req[h].evaluatorType) # {}
     THEN Respond(h, "startEvaluation", "ConflictError")
     ELSE Goto(h, "startEvaluation_set", req[h], loc[h]) /\ UNCHANGED last
  /\ UNCHANGED <<subs, vers, nextVer, evals, issued, nreq>>

\* the evaluation object POST /api/evaluations builds
NewEvaluation(sid, submission, rubricId, uid, evaluatorType) ==
  [NoEvaluation EXCEPT
     !.exists = TRUE, !.submissionId = sid,
     !.submissionVersion = submission.currentVersion,
     !.rubricId = IF rubricId # Undefined THEN rubricId ELSE submission.rubricId,
     !.evaluatorId = IF evaluatorType = "teacher" THEN uid ELSE "ai-system",
     !.evaluatorType = evaluatorType, !.status = "pending"]

\* POST /api/evaluations: evaluations.doc(id).set(evaluation); the store client
\* rejects a document with an undefined field (rubricId) and the handler answers 500
StartEvaluation_Set(h) ==
  /\ pc[h] = "startEvaluation_set"
  /\ LET e == NewEvaluation(loc[h].submissionId, loc[h].submission, req[h].rubricId,
                            req[h].uid, req[h].evaluatorType)
     IN IF e.rubricId = Undefined
        THEN Respond(h, "startEvaluation", "error") /\ UNCHANGED evals
        ELSE /\ evals' = Append(evals, e)
             /\ Goto(h, "startEvaluation_updateSubmission", req[h],
                     [loc[h] EXCEPT !.evaluationId = Len(evals) + 1])
             /\ UNCHANGED last
  /\ UNCHANGED <<subs, vers, nextVer, issued, nreq>>

\* POST /api/evaluations: submissions.doc(id).update(status under_review), the 201
StartEvaluation_UpdateSubmission(h) ==
  /\ pc[h] = "startEvaluation_updateSubmission"
  /\ IF CanUpdate(loc[h].submissionId)
     THEN /\ subs' = [subs EXCEPT ![loc[h].submissionId].status = "under_review"]
          /\ last' = [NoResponse EXCEPT !.op = "startEvaluation", !.code = "ok",
                                        !.evaluationId = loc[h].evaluationId]
          /\ Goto(h, "idle", IdleReq, IdleLoc)
     ELSE /\ UNCHANGED subs
          /\ Respond(h, "startEvaluation", "error")
  /\ UNCHANGED <<vers, nextVer, evals, issued, nreq>>

\* the checks without the completed check
EvaluationAccess_NoCompletedCheck(actor, eid) ==
  IF actor.role \notin {"teacher", "admin"} THEN "PermissionDenied"
  ELSE IF eid \notin EvalIds THEN "NotFound"
  ELSE IF evals[eid].evaluatorId # actor.uid /\ actor.role # "admin"
  THEN "PermissionDenied"
  ELSE "ok"

\* PUT /api/evaluations/:id and POST /api/evaluations/:id/complete:
\* requireRole, docRef.get(), the evaluator check and the completed check
EvaluationAccess(actor, eid) ==
  IF actor.role \notin {"teacher", "admin"} THEN "PermissionDenied"
  ELSE IF eid \notin EvalIds THEN "NotFound"
  ELSE IF evals[eid].evaluatorId # actor.uid /\ actor.role # "admin"
  THEN "PermissionDenied"
  ELSE IF evals[eid].status = "completed" THEN "InvalidStateTransition"
  ELSE "ok"

\* PUT /api/evaluations/:id: docRef.get() and the checks
UpdateEvaluation_Get(h, in, actor, eid, epatch) ==
  /\ Accept(h, in)
  /\ UNCHANGED <<subs, vers, nextVer, evals, issued>>
  /\ IF EvaluationAccess(actor, eid) # "ok"
     THEN Respond(h, "updateEvaluation", EvaluationAccess(actor, eid))
     ELSE /\ Goto(h, IF epatch.status = "completed"
                     THEN "updateEvaluation_updateSubmission"
                     ELSE "updateEvaluation_update",
                  [IdleReq EXCEPT !.op = "updateEvaluation", !.epatch = epatch],
                  [IdleLoc EXCEPT !.evaluationId = eid, !.evaluation = evals[eid]])
          /\ UNCHANGED last

\* PUT /api/evaluations/:id: submissions.doc(id).update(status evaluated)
UpdateEvaluation_UpdateSubmission(h) ==
  /\ pc[h] = "updateEvaluation_updateSubmission"
  /\ IF CanUpdate(loc[h].evaluation.submissionId)
     THEN /\ subs' = [subs EXCEPT ![loc[h].evaluation.submissionId].status = "evaluated"]
          /\ Goto(h, "updateEvaluation_update", req[h], loc[h])
          /\ UNCHANGED last
     ELSE /\ UNCHANGED subs
          /\ Respond(h, "updateEvaluation", "error")
  /\ UNCHANGED <<vers, nextVer, evals, issued, nreq>>

\* the updateData object PUT /api/evaluations/:id writes over the stored
\* document; evaluation is the document the handler has read
EvaluationUpdateData(doc, evaluation, epatch) ==
  [doc EXCEPT
     !.status = IF epatch.status # Undefined THEN epatch.status ELSE @,
     !.overallFeedback = IF epatch.overallFeedback # Undefined
                         THEN epatch.overallFeedback ELSE @,
     !.totalScore = IF epatch.totalScore # NoNumber THEN epatch.totalScore ELSE @,
     !.percentageScore =
        IF /\ epatch.totalScore # NoNumber
           /\ evaluation.maxPossibleScore \notin {NoNumber, 0}
        THEN (epatch.totalScore * 100) \div evaluation.maxPossibleScore
        ELSE @,
     !.completedAt = IF epatch.status = "completed" THEN TRUE ELSE @]

\* PUT /api/evaluations/:id: docRef.update(updateData), then the response
UpdateEvaluation_Update(h) ==
  /\ pc[h] = "updateEvaluation_update"
  /\ evals' = [evals EXCEPT ![loc[h].evaluationId] = EvaluationUpdateData(@, loc[h].evaluation, req[h].epatch)]
  /\ Respond(h, "updateEvaluation", "ok")
  /\ UNCHANGED <<subs, vers, nextVer, issued, nreq>>

\* POST /api/evaluations/:id/complete: docRef.get() and the checks
CompleteEvaluation_Get(h, in, actor, eid, overallFeedback) ==
  /\ Accept(h, in)
  /\ UNCHANGED <<subs, vers, nextVer, evals, issued>>
  /\ IF EvaluationAccess(actor, eid) # "ok"
     THEN Respond(h, "completeEvaluation", EvaluationAccess(actor, eid))
     ELSE /\ Goto(h, "completeEvaluation_update",
                  [IdleReq EXCEPT !.op = "completeEvaluation",
                                  !.overallFeedback = overallFeedback],
                  [IdleLoc EXCEPT !.evaluationId = eid, !.evaluation = evals[eid]])
          /\ UNCHANGED last

\* POST /api/evaluations/:id/complete: "overallFeedback || evaluation.overallFeedback"
CompleteFeedback(overallFeedback, evaluation) ==
  IF overallFeedback # Undefined THEN overallFeedback ELSE evaluation.overallFeedback

\* POST /api/evaluations/:id/complete: docRef.update(status completed); the store
\* client rejects an undefined overallFeedback and the handler answers 500
CompleteEvaluation_Update(h) ==
  /\ pc[h] = "completeEvaluation_update"
  /\ LET fb == CompleteFeedback(req[h].overallFeedback, loc[h].evaluation)
     IN IF fb = Undefined
        THEN Respond(h, "completeEvaluation", "error") /\ UNCHANGED evals
        ELSE /\ evals' = [evals EXCEPT ![loc[h].evaluationId].status = "completed",
                                       ![loc[h].evaluationId].overallFeedback = fb,
                                       ![loc[h].evaluationId].completedAt = TRUE]
             /\ Goto(h, "completeEvaluation_updateSubmission", req[h], loc[h])
             /\ UNCHANGED last
  /\ UNCHANGED <<subs, vers, nextVer, issued, nreq>>

\* POST /api/evaluations/:id/complete: submissions.doc(id).update(status evaluated)
CompleteEvaluation_UpdateSubmission(h) ==
  /\ pc[h] = "completeEvaluation_updateSubmission"
  /\ IF CanUpdate(loc[h].evaluation.submissionId)
     THEN /\ subs' = [subs EXCEPT ![loc[h].evaluation.submissionId].status = "evaluated"]
          /\ Respond(h, "completeEvaluation", "ok")
     ELSE /\ UNCHANGED subs
          /\ Respond(h, "completeEvaluation", "error")
  /\ UNCHANGED <<vers, nextVer, evals, issued, nreq>>

\* the evaluations the query of GET /api/evaluations finds
Matching(q) ==
  {e \in EvalIds :
     /\ q.submissionId # Undefined => evals[e].submissionId = q.submissionId
     /\ q.evaluatorType # Undefined => evals[e].evaluatorType = q.evaluatorType
     /\ q.status # Undefined => evals[e].status = q.status}

\* sorted by createdAt descending (ids are in creation order), then
\* slice(offset, offset + limitNum)
Paged(ids, q) ==
  LET offset == (q.page - 1) * q.limit
  IN {e \in ids : LET rank == Cardinality({d \in ids : d > e})
                  IN rank >= offset /\ rank < offset + q.limit}

\* res.json({data: paged, pagination: {total: sorted.length}})
ListData(uid, ids, q) ==
  [NoResponse EXCEPT !.op = "listEvaluations", !.code = "ok", !.to = uid,
                     !.data = Paged(ids, q), !.total = Cardinality(ids)]

\* GET /api/evaluations: query.get(); a teacher or admin is answered at once
ListEvaluations_Query(h, in, actor, q) ==
  /\ Accept(h, in)
  /\ UNCHANGED <<subs, vers, nextVer, evals, issued>>
  /\ IF actor.role = "student"
     THEN /\ Goto(h, "listEvaluations_submissions",
                  [IdleReq EXCEPT !.op = "listEvaluations", !.uid = actor.uid,
                                  !.query = q],
                  [IdleLoc EXCEPT !.evaluations = Matching(q)])
          /\ UNCHANGED last
     ELSE /\ last' = ListData(actor.uid, Matching(q), q)
          /\ Goto(h, "idle", IdleReq, IdleLoc)

\* the listing without the filter
OwnEvaluations_Unfiltered(ids, uid) == ids

\* evaluations.filter(e => studentSubmissionIds.has(e.submissionId))
OwnEvaluations(ids, uid) ==
  LET studentSubmissionIds ==
        {sid \in SubIds : subs[sid].exists /\ subs[sid].studentId = uid}
  IN {e \in ids : evals[e].submissionId \in studentSubmissionIds}

\* GET /api/evaluations for a student: the submissions query, the filter and
\* the response
ListEvaluations_Submissions(h) ==
  /\ pc[h] = "listEvaluations_submissions"
  /\ last' = ListData(req[h].uid, OwnEvaluations(loc[h].evaluations, req[h].uid),
                      req[h].query)
  /\ Goto(h, "idle", IdleReq, IdleLoc)
  /\ UNCHANGED <<subs, vers, nextVer, evals, issued, nreq>>

\* res.json({data: evaluation}) and res.json({data: evaluations})
ReadData(op, uid, ids) ==
  [NoResponse EXCEPT !.op = op, !.code = "ok", !.to = uid, !.data = ids,
                     !.total = Cardinality(ids)]

\* GET /api/evaluations/:id: evaluations.doc(id).get()
GetEvaluation_Get(h, in, actor, eid) ==
  /\ Accept(h, in)
  /\ UNCHANGED <<subs, vers, nextVer, evals, issued>>
  /\ IF eid \notin EvalIds
     THEN Respond(h, "getEvaluation", "NotFound")
     ELSE IF actor.role = "student"
     THEN /\ Goto(h, "getEvaluation_getSubmission",
                  [IdleReq EXCEPT !.op = "getEvaluation", !.uid = actor.uid],
                  [IdleLoc EXCEPT !.evaluationId = eid, !.evaluation = evals[eid]])
          /\ UNCHANGED last
     ELSE /\ last' = ReadData("getEvaluation", actor.uid, {eid})
          /\ Goto(h, "idle", IdleReq, IdleLoc)

\* GET /api/evaluations/:id for a student: submissions.doc(id).get() and the
\* owner check
GetEvaluation_GetSubmission(h) ==
  /\ pc[h] = "getEvaluation_getSubmission"
  /\ LET submission == subs[loc[h].evaluation.submissionId]
     IN IF ~submission.exists
        THEN Respond(h, "getEvaluation", "NotFound")
        ELSE IF submission.studentId # req[h].uid
        THEN Respond(h, "getEvaluation", "PermissionDenied")
        ELSE /\ last' = ReadData("getEvaluation", req[h].uid, {loc[h].evaluationId})
             /\ Goto(h, "idle", IdleReq, IdleLoc)
  /\ UNCHANGED <<subs, vers, nextVer, evals, issued, nreq>>

\* GET /api/evaluations/submission/:submissionId: submissions.doc(id).get()
\* and the owner check
SubmissionEvaluations_GetSubmission(h, in, actor, sid) ==
  /\ Accept(h, in)
  /\ UNCHANGED <<subs, vers, nextVer, evals, issued>>
  /\ IF ~subs[sid].exists
     THEN Respond(h, "submissionEvaluations", "NotFound")
     ELSE IF actor.role = "student" /\ subs[sid].studentId # actor.uid
     THEN Respond(h, "submissionEvaluations", "PermissionDenied")
     ELSE /\ Goto(h, "submissionEvaluations_query",
                  [IdleReq EXCEPT !.op = "submissionEvaluations", !.uid = actor.uid],
                  [IdleLoc EXCEPT !.submissionId = sid])
          /\ UNCHANGED last

\* GET /api/evaluations/submission/:submissionId: the evaluations query and
\* the response
SubmissionEvaluations_Query(h) ==
  /\ pc[h] = "submissionEvaluations_query"
  /\ last' = ReadData("submissionEvaluations", req[h].uid,
                      {e \in EvalIds : evals[e].submissionId = loc[h].submissionId})
  /\ Goto(h, "idle", IdleReq, IdleLoc)
  /\ UNCHANGED <<subs, vers, nextVer, evals, issued, nreq>>

\* ------------------------------------------------------------- services/ai
\* word, paragraph and sentence counts of the text bodies
TextStats(content) ==
  IF content = "b" THEN [words |-> 600, paragraphs |-> 6, sentences |-> 40]
  ELSE IF content = "a" THEN [words |-> 2, paragraphs |-> 1, sentences |-> 1]
  ELSE [words |-> 1, paragraphs |-> 0, sentences |-> 0]

Max(a, b) == IF a >= b THEN a ELSE b

Min(a, b) == IF a <= b THEN a ELSE b

\* words counted at the thresholds too
calculateScore_AtThreshold(w, p, s) ==
  LET max == 100
      length == (IF w >= 100 THEN 3 ELSE 0) + (IF w >= 250 THEN 3 ELSE 0)
                + (IF w >= 500 THEN 4 ELSE 0)
      structure == (IF p >= 3 THEN 5 ELSE 0) + (IF p >= 5 THEN 5 ELSE 0)
      variety == IF w > 10 * Max(s, 1) /\ w < 25 * Max(s, 1) THEN 5 ELSE 0
  IN [score |-> Min(70 + length + structure + variety, max), max |-> max]

\* calculateScore on a text of w words, p paragraphs and s sentences
calculateScore(w, p, s) ==
  LET max == 100
      length == (IF w > 100 THEN 3 ELSE 0) + (IF w > 250 THEN 3 ELSE 0)
                + (IF w > 500 THEN 4 ELSE 0)
      structure == (IF p >= 3 THEN 5 ELSE 0) + (IF p >= 5 THEN 5 ELSE 0)
      \* avgSentenceLength = w / max(s, 1), compared without the division
      variety == IF w > 10 * Max(s, 1) /\ w < 25 * Max(s, 1) THEN 5 ELSE 0
  IN [score |-> Min(70 + length + structure + variety, max), max |-> max]

\* the EvaluationResult evaluateSubmission resolves with
evaluateSubmission(content) ==
  LET st == TextStats(content)
      c == calculateScore(st.words, st.paragraphs, st.sentences)
  IN [grammarFeedback |-> "grammar", overallFeedback |-> "overall",
      suggestions |-> <<"suggestion">>, totalScore |-> c.score,
      maxPossibleScore |-> c.max, percentageScore |-> (c.score * 100) \div c.max]

\* --------------------------------------------------------------- ai routes
FallbackFeedback ==
  "AI evaluation encountered an error. Please try again or request a manual review."

FallbackSuggestions == <<"Request a manual review from your teacher">>

\* POST /api/ai/evaluate/:submissionId: submissions.doc(id).get() and the checks
AIEvaluate_GetSubmission(h, in, actor, sid) ==
  /\ Accept(h, in)
  /\ UNCHANGED <<subs, vers, nextVer, evals, issued>>
  /\ IF ~subs[sid].exists
     THEN Respond(h, "aiEvaluate", "NotFound")
     ELSE IF actor.role = "student" /\ subs[sid].studentId # actor.uid
     THEN Respond(h, "aiEvaluate", "PermissionDenied")
     ELSE IF subs[sid].status = "draft"
     THEN Respond(h, "aiEvaluate", "InvalidStateTransition")
     ELSE /\ Goto(h, "aiEvaluate_query",
                  [IdleReq EXCEPT !.op = "aiEvaluate", !.evaluatorType = "ai"],
                  [IdleLoc EXCEPT !.submissionId = sid, !.submission = subs[sid]])
          /\ UNCHANGED last

\* POST /api/ai/evaluate/:submissionId: the existingEval query and the conflict answer
AIEvaluate_Query(h) ==
  /\ pc[h] = "aiEvaluate_query"
  /\ IF NonTerminal(loc[h].submissionId, "ai") # {}
     THEN Respond(h, "aiEvaluate", "ConflictError")
     ELSE Goto(h, "aiEvaluate_set", req[h], loc[h]) /\ UNCHANGED last
  /\ UNCHANGED <<subs, vers, nextVer, evals, issued, nreq>>

\* the evaluation object created in pending
NewAIEvaluation_Pending(sid, submission) ==
  [NoEvaluation EXCEPT
     !.exists = TRUE, !.submissionId = sid,
     !.submissionVersion = submission.currentVersion,
     !.rubricId = submission.rubricId,
     !.evaluatorId = "ai-system", !.evaluatorType = "ai", !.status = "pending"]

\* the evaluation object POST /api/ai/evaluate/:submissionId builds
NewAIEvaluation(sid, submission) ==
  [NoEvaluation EXCEPT
     !.exists = TRUE, !.submissionId = sid,
     !.submissionVersion = submission.currentVersion,
     !.rubricId = submission.rubricId,
     !.evaluatorId = "ai-system", !.evaluatorType = "ai", !.status = "in_progress"]

\* POST /api/ai/evaluate/:submissionId: evaluations.doc(id).set(evaluation)
AIEvaluate_Set(h) ==
  /\ pc[h] = "aiEvaluate_set"
  /\ evals' = Append(evals, NewAIEvaluation(loc[h].submissionId, loc[h].submission))
  /\ Goto(h, "aiEvaluate_updateSubmission", req[h],
          [loc[h] EXCEPT !.evaluationId = Len(evals) + 1])
  /\ UNCHANGED <<subs, vers, nextVer, last, issued, nreq>>

\* POST /api/ai/evaluate/:submissionId: submissions.doc(id).update(status
\* under_review), then res.json({evaluationId}); the handler goes on to the engine
AIEvaluate_UpdateSubmission(h) ==
  /\ pc[h] = "aiEvaluate_updateSubmission"
  /\ IF CanUpdate(loc[h].submissionId)
     THEN /\ subs' = [subs EXCEPT ![loc[h].submissionId].status = "under_review"]
          /\ last' = [NoResponse EXCEPT !.op = "aiEvaluate", !.code = "ok",
                                        !.evaluationId = loc[h].evaluationId]
          /\ Goto(h, "ai_engine", req[h], loc[h])
     ELSE /\ UNCHANGED subs
          /\ Respond(h, "aiEvaluate", "error")
  /\ UNCHANGED <<vers, nextVer, evals, issued, nreq>>

\* the result fields written without the status
ResultData_StatusKept(doc, result) ==
  [doc EXCEPT
     !.grammarFeedback = result.grammarFeedback,
     !.overallFeedback = result.overallFeedback, !.suggestions = result.suggestions,
     !.totalScore = result.totalScore, !.maxPossibleScore = result.maxPossibleScore,
     !.percentageScore = result.percentageScore, !.completedAt = TRUE]

\* the fields the success path writes over the stored evaluation
ResultData(doc, result) ==
  [doc EXCEPT
     !.status = "completed", !.grammarFeedback = result.grammarFeedback,
     !.overallFeedback = result.overallFeedback, !.suggestions = result.suggestions,
     !.totalScore = result.totalScore, !.maxPossibleScore = result.maxPossibleScore,
     !.percentageScore = result.percentageScore, !.completedAt = TRUE]

\* evaluateSubmission(submission.content) resolves; evaluations.doc(id).update(results)
AIEvaluate_Result(h, in) ==
  /\ Resume(h, in, "ai_engine")
  /\ evals' = [evals EXCEPT ![loc[h].evaluationId] =
                 ResultData(@, evaluateSubmission(loc[h].submission.content))]
  /\ Goto(h, "ai_markEvaluated", req[h], loc[h])
  /\ UNCHANGED <<subs, vers, nextVer, last, issued, nreq>>

\* success path: submissions.doc(id).update(status evaluated); a rejected
\* update is caught by the catch (aiError) block
AIEvaluate_MarkEvaluated(h, in) ==
  /\ Resume(h, in, "ai_markEvaluated")
  /\ IF CanUpdate(loc[h].submissionId)
     THEN /\ subs' = [subs EXCEPT ![loc[h].submissionId].status = "evaluated"]
          /\ Goto(h, "idle", IdleReq, IdleLoc)
     ELSE /\ UNCHANGED subs
          /\ Goto(h, "ai_catch", req[h], loc[h])
  /\ UNCHANGED <<vers, nextVer, evals, last, issued, nreq>>

\* the fallback texts written without the status
FallbackData_StatusKept(doc) ==
  [doc EXCEPT !.overallFeedback = FallbackFeedback,
              !.suggestions = FallbackSuggestions]

\* the fields the catch (aiError) block writes over the stored evaluation
FallbackData(doc) ==
  [doc EXCEPT !.status = "completed", !.overallFeedback = FallbackFeedback,
              !.suggestions = FallbackSuggestions]

\* catch (aiError): evaluateSubmission rejected (or a write of the success path
\* did); evaluations.doc(id).update(fallback)
AIEvaluate_Fallback(h, in) ==
  /\ Resume(h, in, "ai_engine") \/ Resume(h, in, "ai_catch")
  /\ evals' = [evals EXCEPT ![loc[h].evaluationId] = FallbackData(@)]
  /\ Goto(h, "ai_revert", req[h], loc[h])
  /\ UNCHANGED <<subs, vers, nextVer, last, issued, nreq>>

\* the catch block leaving the submission under review
RevertStatus_UnderReview == "under_review"

\* the status the catch (aiError) block puts the submission back to
RevertStatus == "submitted"

\* catch (aiError): submissions.doc(id).update(status submitted)
AIEvaluate_Revert(h, in) ==
  /\ Resume(h, in, "ai_revert")
  /\ IF CanUpdate(loc[h].submissionId)
     THEN subs' = [subs EXCEPT ![loc[h].submissionId].status = RevertStatus]
     ELSE UNCHANGED subs
  /\ Goto(h, "idle", IdleReq, IdleLoc)
  /\ UNCHANGED <<vers, nextVer, evals, last, issued, nreq>>

\* GET /api/ai/status/:evaluationId: the data of the response, kept together
\* with the id the client asked for
StatusData(eid, evaluation) ==
  [NoResponse EXCEPT
     !.op = "aiStatus", !.code = "ok", !.evaluationId = eid,
     !.status = evaluation.status,
     !.hasResults = /\ evaluation.status = "completed"
                    /\ evaluation.overallFeedback \notin {Undefined, ""}]

\* GET /api/ai/status/:evaluationId: evaluations.doc(id).get(); teachers and
\* admins are answered at once
AIStatus_Get(h, in, actor, eid) ==
  /\ Accept(h, in)
  /\ UNCHANGED <<subs, vers, nextVer, evals, issued>>
  /\ IF eid \notin EvalIds
     THEN Respond(h, "aiStatus", "NotFound")
     ELSE IF actor.role = "student"
     THEN /\ Goto(h, "aiStatus_getSubmission",
                  [IdleReq EXCEPT !.op = "aiStatus", !.uid = actor.uid],
                  [IdleLoc EXCEPT !.evaluationId = eid, !.evaluation = evals[eid]])
          /\ UNCHANGED last
     ELSE /\ last' = StatusData(eid, evals[eid])
          /\ Goto(h, "idle", IdleReq, IdleLoc)

\* GET /api/ai/status/:evaluationId: for a student, submissions.doc(id).get()
\* and the owner check, then the response
AIStatus_GetSubmission(h) ==
  /\ pc[h] = "aiStatus_getSubmission"
  /\ LET submission == subs[loc[h].evaluation.submissionId]
     IN IF submission.exists /\ submission.studentId # req[h].uid
        THEN Respond(h, "aiStatus", "PermissionDenied")
        ELSE /\ last' = StatusData(loc[h].evaluationId, loc[h].evaluation)
             /\ Goto(h, "idle", IdleReq, IdleLoc)
  /\ UNCHANGED <<subs, vers, nextVer, evals, issued, nreq>>

\* ---------------------------------------------------------- rubrics routes
\* the sum stopping at the first criterion
totalWeight_First(criteria) ==
  IF criteria = <<>> THEN 0 ELSE criteria[1]

RECURSIVE totalWeight(_)
\* criteria.reduce((sum, c) => sum + (c.weight || 0), 0)
totalWeight(criteria) ==
  IF criteria = <<>> THEN 0
  ELSE criteria[1] + totalWeight(Tail(criteria))

\* the two validations of POST /api/rubrics
ValidRubric(body) ==
  /\ body.title # Undefined
  /\ body.criteria # NoCriteria
  /\ Len(body.criteria) # 0
  /\ totalWeight(body.criteria) = 100

\* "if (updates.criteria)" and the weight validation of PUT /api/rubrics/:id
ValidCriteriaPatch(rpatch) ==
  rpatch.criteria # NoCriteria => totalWeight(rpatch.criteria) = 100

\* requireRole, docRef.get(), the existence check and the owner check
RubricAccess(actor, rid) ==
  IF actor.role \notin {"teacher", "admin"} THEN "PermissionDenied"
  ELSE IF ~rubrics[rid].exists THEN "NotFound"
  ELSE IF rubrics[rid].teacherId # actor.uid /\ actor.role # "admin"
  THEN "PermissionDenied"
  ELSE "ok"

\* POST /api/rubrics: requireRole, the validations, users.doc(uid).get()
CreateRubric_Validate(h, in, actor, body) ==
  /\ Accept(h, in)
  /\ UNCHANGED <<subs, vers, nextVer, evals>>
  /\ IF actor.role \notin {"teacher", "admin"}
     THEN Respond(h, "createRubric", "PermissionDenied") /\ UNCHANGED issued
     ELSE IF ~ValidRubric(body)
     THEN Respond(h, "createRubric", "ValidationError") /\ UNCHANGED issued
     ELSE \E rid \in RubricIds \ issued :
            /\ issued' = issued \cup {rid}
            /\ Goto(h, "createRubric_set",
                    [IdleReq EXCEPT !.op = "createRubric", !.uid = actor.uid,
                                    !.rubricId = rid, !.rpatch = body],
                    IdleLoc)
            /\ UNCHANGED last

\* POST /api/rubrics: rubrics.doc(rubricId).set(rubric), then the 201
CreateRubric_Set(h) ==
  /\ pc[h] = "createRubric_set"
  /\ rubrics' = [rubrics EXCEPT ![req[h].rubricId] =
                   [exists |-> TRUE, teacherId |-> req[h].uid,
                    title |-> req[h].rpatch.title, criteria |-> req[h].rpatch.criteria]]
  /\ Answer(h, "createRubric", "ok")
  /\ UNCHANGED <<subs, vers, nextVer, evals, issued, nreq>>

\* PUT /api/rubrics/:id: docRef.get(), the checks and the weight validation
UpdateRubric_Get(h, in, actor, rid, rpatch) ==
  /\ Accept(h, in)
  /\ UNCHANGED <<subs, vers, nextVer, evals, issued>>
  /\ IF RubricAccess(actor, rid) # "ok"
     THEN Respond(h, "updateRubric", RubricAccess(actor, rid))
     ELSE IF ~ValidCriteriaPatch(rpatch)
     THEN Respond(h, "updateRubric", "ValidationError")
     ELSE /\ Goto(h, "updateRubric_update",
                  [IdleReq EXCEPT !.op = "updateRubric", !.rubricId = rid,
                                  !.rpatch = rpatch],
                  IdleLoc)
          /\ UNCHANGED last

\* the updateData object PUT /api/rubrics/:id writes over the stored document
RubricUpdateData(doc, rpatch) ==
  [doc EXCEPT
     !.title = IF rpatch.title # Undefined THEN rpatch.title ELSE @,
     !.criteria = IF rpatch.criteria # NoCriteria THEN rpatch.criteria ELSE @]

\* PUT /api/rubrics/:id: docRef.update(updateData), then the response
UpdateRubric_Update(h) ==
  /\ pc[h] = "updateRubric_update"
  /\ IF rubrics[req[h].rubricId].exists
     THEN /\ rubrics' = [rubrics EXCEPT ![req[h].rubricId] =
                           RubricUpdateData(@, req[h].rpatch)]
          /\ Answer(h, "updateRubric", "ok")
     ELSE Respond(h, "updateRubric", "error")
  /\ UNCHANGED <<subs, vers, nextVer, evals, issued, nreq>>

\* DELETE /api/rubrics/:id: docRef.get() and the checks
DeleteRubric_Get(h, in, actor, rid) ==
  /\ Accept(h, in)
  /\ UNCHANGED <<subs, vers, nextVer, evals, issued>>
  /\ IF RubricAccess(actor, rid) # "ok"
     THEN Respond(h, "deleteRubric", RubricAccess(actor, rid))
     ELSE /\ Goto(h, "deleteRubric_query",
                  [IdleReq EXCEPT !.op = "deleteRubric", !.rubricId = rid],
                  IdleLoc)
          /\ UNCHANGED last

\* the query restricted to submitted submissions
submissionsUsingRubric_SubmittedOnly(rid) ==
  {sid \in SubIds : /\ subs[sid].exists /\ subs[sid].rubricId = rid
                    /\ subs[sid].status = "submitted"}

\* the query submissions.where('rubricId', '==', id).limit(1)
submissionsUsingRubric(rid) ==
  {sid \in SubIds : subs[sid].exists /\ subs[sid].rubricId = rid}

\* DELETE /api/rubrics/:id: the submissionsUsingRubric query and the conflict answer
DeleteRubric_Query(h) ==
  /\ pc[h] = "deleteRubric_query"
  /\ IF submissionsUsingRubric(req[h].rubricId) # {}
     THEN Respond(h, "deleteRubric", "ConflictError")
     ELSE Goto(h, "deleteRubric_delete", req[h], loc[h]) /\ UNCHANGED last
  /\ UNCHANGED <<subs, vers, nextVer, evals, issued, nreq>>

\* DELETE /api/rubrics/:id: docRef.delete(), then the response
DeleteRubric_Delete(h) ==
  /\ pc[h] = "deleteRubric_delete"
  /\ rubrics' = [rubrics EXCEPT ![req[h].rubricId] = NoRubric]
  /\ Answer(h, "deleteRubric", "ok")
  /\ UNCHANGED <<subs, vers, nextVer, evals, issued, nreq>>

\* ------------------------------------------------------------ the system
\* one step of handler h, a new request drawn from the input sets of `in`
Step(h, in) ==
    \/ \E actor \in in.actors, title \in {Undefined, "T"}, content \in Contents,
          rubricId \in {Undefined} \cup RubricIds :
         CreateSubmission_Set(h, in, actor, title, content, rubricId)
    \/ CreateSubmission_AddVersion(h)
    \/ \E actor \in in.actors, sid \in SubIds, patch \in in.patches :
         UpdateSubmission_Get(h, in, actor, sid, patch)
    \/ UpdateSubmission_AddVersion(h)
    \/ UpdateSubmission_Update(h)
    \/ \E actor \in in.actors, sid \in SubIds : SubmitSubmission_Get(h, in, actor, sid)
    \/ SubmitSubmission_Update(h)
    \/ \E actor \in in.actors, sid \in SubIds : DeleteSubmission_Get(h, in, actor, sid)
    \/ DeleteSubmission_Versions(h)
    \/ DeleteSubmission_Commit(h)
    \/ \E actor \in in.actors, sid \in SubIds, evaluatorType \in {"teacher", "ai"},
          rubricId \in {Undefined} \cup RubricIds :
         StartEvaluation_GetSubmission(h, in, actor, sid, evaluatorType, rubricId)
    \/ StartEvaluation_Query(h)
    \/ StartEvaluation_Set(h)
    \/ StartEvaluation_UpdateSubmission(h)
    \/ \E actor \in in.actors, eid \in 1..(Len(evals) + 1), epatch \in in.epatches :
         UpdateEvaluation_Get(h, in, actor, eid, epatch)
    \/ UpdateEvaluation_UpdateSubmission(h)
    \/ UpdateEvaluation_Update(h)
    \/ \E actor \in in.actors, eid \in 1..(Len(evals) + 1),
          overallFeedback \in {Undefined, "fb"} :
         CompleteEvaluation_Get(h, in, actor, eid, overallFeedback)
    \/ CompleteEvaluation_Update(h)
    \/ CompleteEvaluation_UpdateSubmission(h)
    \/ \E actor \in in.actors, sid \in SubIds : AIEvaluate_GetSubmission(h, in, actor, sid)
    \/ AIEvaluate_Query(h)
    \/ AIEvaluate_Set(h)
    \/ AIEvaluate_UpdateSubmission(h)
    \/ AIEvaluate_Result(h, in)
    \/ AIEvaluate_MarkEvaluated(h, in)
    \/ AIEvaluate_Fallback(h, in)
    \/ AIEvaluate_Revert(h, in)
    \/ \E actor \in in.actors, eid \in 1..(Len(evals) + 1) : AIStatus_Get(h, in, actor, eid)
    \/ AIStatus_GetSubmission(h)

\* requests of every user with every body, served one at a time
SerialInputs ==
  [serial |-> TRUE, actors |-> Users, patches |-> UpdateSubmissionDTO,
   epatches |-> {p \in UpdateEvaluationDTO : p.totalScore = NoNumber}]

Next == \E h \in Slots : Step(h, SerialInputs)

Spec == Init /\ [][Next]_vars

\* requests of the owner, a teacher and the admin that overlap: every handler
\* may be suspended at any of its awaits while another one runs
ConcurrentInputs ==
  [serial |-> FALSE,
   actors |-> {u \in Users : u.uid \in {"s1", "t1", "ad"}},
   patches |-> {p \in UpdateSubmissionDTO :
                  \/ p.content = "b" /\ p.status = Undefined
                  \/ p.content = Undefined /\ p.status = "returned"},
   epatches |-> {p \in UpdateEvaluationDTO :
                   p.status = "completed" /\ p.overallFeedback = "fb"}]

NextConcurrent == \E h \in Slots : Step(h, ConcurrentInputs)

SpecConcurrent == Init /\ [][NextConcurrent]_vars

\* a stored rubric of teacher t1 with two criteria of weight 50
StoredRubric ==
  [exists |-> TRUE, teacherId |-> "t1", title |-> "T", criteria |-> <<50, 50>>]

\* a stored submission that may reference the rubric
StoredSubmissionWith(status, rubricId) ==
  [StoredSubmission(status) EXCEPT !.rubricId = rubricId]

\* The rubrics routes start on a store that holds the rubric or not, and no
\* submission or one submission (any status) that references the rubric or none.
InitRubrics ==
  /\ \/ /\ subs = [s \in SubIds |-> NoSubmission]
        /\ vers = {}
        /\ nextVer = 0
        /\ \/ rubrics = [r \in RubricIds |-> NoRubric] /\ issued = {}
           \/ rubrics = [r \in RubricIds |-> StoredRubric] /\ issued = RubricIds
     \/ \E status \in SubmissionStatus, rubricId \in {Undefined} \cup RubricIds :
          /\ subs = [s \in SubIds |-> StoredSubmissionWith(status, rubricId)]
          /\ vers = {[id |-> 1, submissionId |-> "sub1", version |-> 1, content |-> "a"]}
          /\ nextVer = 1
          /\ \/ rubrics = [r \in RubricIds |-> NoRubric] /\ issued = SubIds
             \/ rubrics = [r \in RubricIds |-> StoredRubric]
                /\ issued = SubIds \cup RubricIds
  /\ evals = <<>>
  /\ pc = [h \in Slots |-> "idle"]
  /\ req = [h \in Slots |-> IdleReq]
  /\ loc = [h \in Slots |-> IdleLoc]
  /\ last = NoResponse
  /\ nreq = 0
  /\ scoring = NoScoring

\* one step of handler h on the rubrics routes, or of a delete of a submission
RubricStep(h, in) ==
    \/ \E actor \in in.actors, body \in CreateRubricDTO :
         CreateRubric_Validate(h, in, actor, body)
    \/ CreateRubric_Set(h)
    \/ \E actor \in in.actors, rid \in RubricIds, rpatch \in UpdateRubricDTO :
         UpdateRubric_Get(h, in, actor, rid, rpatch)
    \/ UpdateRubric_Update(h)
    \/ \E actor \in in.actors, rid \in RubricIds : DeleteRubric_Get(h, in, actor, rid)
    \/ DeleteRubric_Query(h)
    \/ DeleteRubric_Delete(h)
    \/ \E actor \in in.actors, sid \in SubIds : DeleteSubmission_Get(h, in, actor, sid)
    \/ DeleteSubmission_Versions(h)
    \/ DeleteSubmission_Commit(h)

\* requests of a student, the owning teacher, another teacher and the admin,
\* served one at a time
RubricInputs ==
  [serial |-> TRUE, actors |-> {u \in Users : u.uid \in {"s1", "t1", "t2", "ad"}}]

NextRubrics == \E h \in Slots : RubricStep(h, RubricInputs)

SpecRubrics == InitRubrics /\ [][NextRubrics]_vars

\* one step of handler h on the routes that write evaluations
GradingStep(h, in) ==
    \/ \E actor \in in.actors, sid \in SubIds, evaluatorType \in {"teacher", "ai"},
          rubricId \in {Undefined} \cup RubricIds :
         StartEvaluation_GetSubmission(h, in, actor, sid, evaluatorType, rubricId)
    \/ StartEvaluation_Query(h)
    \/ StartEvaluation_Set(h)
    \/ StartEvaluation_UpdateSubmission(h)
    \/ \E actor \in in.actors, eid \in 1..(Len(evals) + 1), epatch \in in.epatches :
         UpdateEvaluation_Get(h, in, actor, eid, epatch)
    \/ UpdateEvaluation_UpdateSubmission(h)
    \/ UpdateEvaluation_Update(h)
    \/ \E actor \in in.actors, eid \in 1..(Len(evals) + 1),
          overallFeedback \in {Undefined, "fb"} :
         CompleteEvaluation_Get(h, in, actor, eid, overallFeedback)
    \/ CompleteEvaluation_Update(h)
    \/ CompleteEvaluation_UpdateSubmission(h)
    \/ \E actor \in in.actors, sid \in SubIds : AIEvaluate_GetSubmission(h, in, actor, sid)
    \/ AIEvaluate_Query(h)
    \/ AIEvaluate_Set(h)
    \/ AIEvaluate_UpdateSubmission(h)
    \/ AIEvaluate_Result(h, in)
    \/ AIEvaluate_MarkEvaluated(h, in)
    \/ AIEvaluate_Fallback(h, in)
    \/ AIEvaluate_Revert(h, in)

\* grading requests of a teacher and the admin with the bodies that carry a
\* score or complete the evaluation; the handlers overlap
GradingInputs ==
  [serial |-> FALSE,
   actors |-> {u \in Users : u.uid \in {"t1", "ad"}},
   epatches |-> {p \in UpdateEvaluationDTO :
                   \/ p.totalScore # NoNumber
                   \/ p.status = "completed" /\ p.overallFeedback = "fb"}]

NextGrading == \E h \in Slots : GradingStep(h, GradingInputs)

SpecGrading == Init /\ [][NextGrading]_vars

\* one step of handler h on the routes that read evaluations, or of a start of
\* an evaluation
ReadStep(h, in) ==
    \/ \E actor \in in.actors, sid \in SubIds, evaluatorType \in {"teacher", "ai"},
          rubricId \in {Undefined} \cup RubricIds :
         StartEvaluation_GetSubmission(h, in, actor, sid, evaluatorType, rubricId)
    \/ StartEvaluation_Query(h)
    \/ StartEvaluation_Set(h)
    \/ StartEvaluation_UpdateSubmission(h)
    \/ \E actor \in in.actors, q \in EvaluationQueries :
         ListEvaluations_Query(h, in, actor, q)
    \/ ListEvaluations_Submissions(h)
    \/ \E actor \in in.actors, eid \in 1..(Len(evals) + 1) :
         GetEvaluation_Get(h, in, actor, eid)
    \/ GetEvaluation_GetSubmission(h)
    \/ \E actor \in in.actors, sid \in SubIds :
         SubmissionEvaluations_GetSubmission(h, in, actor, sid)
    \/ SubmissionEvaluations_Query(h)

\* requests of the owner, another student, a teacher and the admin, served
\* one at a time
ReadInputs ==
  [serial |-> TRUE, actors |-> {u \in Users : u.uid \in {"s1", "s2", "t1", "ad"}}]

NextReads == \E h \in Slots : ReadStep(h, ReadInputs)

SpecReads == Init /\ [][NextReads]_vars

\* one step of handler h on the AI routes, or of a delete of a submission
PipelineStep(h, in) ==
    \/ \E actor \in in.actors, sid \in SubIds : AIEvaluate_GetSubmission(h, in, actor, sid)
    \/ AIEvaluate_Query(h)
    \/ AIEvaluate_Set(h)
    \/ AIEvaluate_UpdateSubmission(h)
    \/ AIEvaluate_Result(h, in)
    \/ AIEvaluate_MarkEvaluated(h, in)
    \/ AIEvaluate_Fallback(h, in)
    \/ AIEvaluate_Revert(h, in)
    \/ \E actor \in in.actors, eid \in 1..(Len(evals) + 1) : AIStatus_Get(h, in, actor, eid)
    \/ AIStatus_GetSubmission(h)
    \/ \E actor \in in.actors, sid \in SubIds : DeleteSubmission_Get(h, in, actor, sid)
    \/ DeleteSubmission_Versions(h)
    \/ DeleteSubmission_Commit(h)

\* requests of the owner, another student and the admin; the handlers overlap
PipelineInputs ==
  [serial |-> FALSE, actors |-> {u \in Users : u.uid \in {"s1", "s2", "ad"}}]

NextPipeline == \E h \in Slots : PipelineStep(h, PipelineInputs)

\* a handler that has taken a request runs on: every await settles (the
\* engine call returns or fails) and the continuation is scheduled
Continue(h) == pc[h] # "idle" /\ PipelineStep(h, PipelineInputs)

SpecPipeline ==
  Init /\ [][NextPipeline]_vars /\ \A h \in Slots : WF_vars(Continue(h))

\* word counts of a text: text.split(/\s+/).length is at least 1
Words == {1, 10, 99, 100, 101, 250, 251, 500, 501, 600}

\* paragraph counts of a text
Paragraphs == 0..6

\* sentence counts of a text
Sentences == {0, 1, 4, 10, 11, 24, 25, 40, 60}

\* the scoring service is called on a text of w words, p paragraphs (each
\* holds a word) and s sentences
InitScoring ==
  /\ subs = [sid \in SubIds |-> NoSubmission]
  /\ vers = {}
  /\ nextVer = 0
  /\ issued = {}
  /\ evals = <<>>
  /\ pc = [h \in Slots |-> "idle"]
  /\ req = [h \in Slots |-> IdleReq]
  /\ loc = [h \in Slots |-> IdleLoc]
  /\ last = NoResponse
  /\ nreq = 0
  /\ rubrics = [r \in RubricIds |-> NoRubric]
  /\ \E w \in Words, p \in Paragraphs, s \in Sentences :
       /\ p <= w
       /\ scoring = [w |-> w, p |-> p, s |-> s, result |-> NoScore]

\* const { score, max } = calculateScore(content)
CalculateScore ==
  /\ scoring.result = NoScore
  /\ scoring' = [scoring EXCEPT
                   !.result = calculateScore(scoring.w, scoring.p, scoring.s)]
  /\ UNCHANGED <<subs, vers, nextVer, evals, pc, req, loc, last, issued, nreq,
                 rubrics>>

NextScoring == CalculateScore

SpecScoring == InitScoring /\ [][NextScoring]_vars

\* ------------------------------------------------------------ properties
\* the store holds a pending or in_progress evaluation of the pair
HoldsNonTerminal(sid, evaluatorType) ==
  \E e \in 1..Len(evals) :
    /\ evals[e].submissionId = sid
    /\ evals[e].evaluatorType = evaluatorType
    /\ evals[e].status \in {"pending", "in_progress"}

\* handler h takes the step that leaves label
Leaves(h, label) == pc[h] = label /\ pc'[h] # label

C1_AtQuery(h) ==
  (Leaves(h, "startEvaluation_query") \/ Leaves(h, "aiEvaluate_query")) =>
    IF HoldsNonTerminal(loc[h].submissionId, req[h].evaluatorType)
    THEN /\ last'.op = req[h].op /\ last'.code = "ConflictError"
         /\ pc'[h] = "idle"
         /\ evals' = evals /\ subs' = subs
    ELSE /\ pc'[h] = (IF req[h].op = "aiEvaluate" THEN "aiEvaluate_set"
                                                  ELSE "startEvaluation_set")
         /\ last' = last

C1_AtSet(h) ==
  /\ Leaves(h, "aiEvaluate_set") =>
       /\ Len(evals') = Len(evals) + 1
       /\ evals'[Len(evals')].submissionId = loc[h].submissionId
       /\ evals'[Len(evals')].evaluatorType = "ai"
       /\ evals'[Len(evals')].status = "in_progress"
  /\ (Leaves(h, "startEvaluation_set")
      /\ (req[h].rubricId # Undefined \/ loc[h].submission.rubricId # Undefined)) =>
       /\ Len(evals') = Len(evals) + 1
       /\ evals'[Len(evals')].submissionId = loc[h].submissionId
       /\ evals'[Len(evals')].evaluatorType = req[h].evaluatorType
       /\ evals'[Len(evals')].status = "pending"

\* C1: a start-evaluation request (manual or AI) that finds a pending or
\* in_progress evaluation of its (submissionId, evaluatorType) pair in the store
\* is answered ConflictError, creates no evaluation and leaves the submission
\* as it is; a start that finds none (the earlier ones are completed) is not
\* refused as a conflict and creates its evaluation record.
C1_ConflictWhileNonTerminal ==
  [][\A h \in Slots : C1_AtQuery(h) /\ C1_AtSet(h)]_vars

\* a start was refused as a conflict although an earlier evaluation of the same
\* pair had completed: the start after the completion was accepted, and the
\* next one met the evaluation it created
C1_Witness ==
  /\ last.code = "ConflictError"
  /\ \E e1, e2 \in EvalIds :
       /\ e1 < e2
       /\ evals[e1].submissionId = evals[e2].submissionId
       /\ evals[e1].evaluatorType = evals[e2].evaluatorType
       /\ evals[e1].status = "completed"
       /\ evals[e2].status \in {"pending", "in_progress"}

\* C2: in every reachable state, whatever the interleaving of overlapping
\* start requests, a (submissionId, evaluatorType) pair has at most one
\* evaluation in pending or in_progress.
C2_SingleFlight ==
  \A e1, e2 \in EvalIds :
    (/\ evals[e1].submissionId = evals[e2].submissionId
     /\ evals[e1].evaluatorType = evals[e2].evaluatorType
     /\ evals[e1].status \in {"pending", "in_progress"}
     /\ evals[e2].status \in {"pending", "in_progress"}) => e1 = e2

\* the request of handler h is refused with code and changes nothing
Refused(h, op, code) ==
  /\ last' = [NoResponse EXCEPT !.op = op, !.code = code]
  /\ pc'[h] = "idle"
  /\ subs' = subs /\ vers' = vers /\ evals' = evals

\* a student's update of a submission that is not draft or returned, or delete
\* of one that is not draft, is refused with code(actor, sid)
StudentEditRefused(code(_, _)) ==
  \A h \in Slots, actor \in Users, sid \in SubIds :
    (nreq' = nreq + 1 /\ actor.role = "student" /\ subs[sid].exists) =>
      /\ \A patch \in UpdateSubmissionDTO :
           (/\ subs[sid].status \notin {"draft", "returned"}
            /\ UpdateSubmission_Get(h, SerialInputs, actor, sid, patch))
           => Refused(h, "updateSubmission", code(actor, sid))
      /\ (/\ subs[sid].status # "draft"
          /\ DeleteSubmission_Get(h, SerialInputs, actor, sid))
         => Refused(h, "deleteSubmission", code(actor, sid))

C3_Code(actor, sid) ==
  IF subs[sid].studentId = actor.uid THEN "InvalidStateTransition"
                                     ELSE "PermissionDenied"

C3_AlwaysInvalid(actor, sid) == "InvalidStateTransition"

\* C3 (amended): when the actor is the student who owns the submission, an
\* update of a submission that is not draft or returned and a delete of one
\* that is not draft fail with InvalidStateTransition; for a student who does
\* not own it both fail with PermissionDenied; in every case the submission
\* and its version history are unchanged.
C3_StudentEditRefused == [][StudentEditRefused(C3_Code)]_vars

\* C3 as stated: every student, owner or not, is answered InvalidStateTransition.
C3_AsStated == [][StudentEditRefused(C3_AlwaysInvalid)]_vars

\* the owner's update or delete of the submitted (or later) submission was
\* refused and the submission still carries its version 1 content
C3_Witness ==
  /\ last.op \in {"updateSubmission", "deleteSubmission"}
  /\ last.code = "InvalidStateTransition"
  /\ \E sid \in SubIds : /\ subs[sid].exists
                         /\ subs[sid].status \notin {"draft", "returned"}

\* an update or complete request on a completed evaluation is refused with
\* code(actor, eid)
CompletedRefused(code(_, _)) ==
  \A h \in Slots, actor \in Users, eid \in EvalIds :
    (/\ nreq' = nreq + 1
     /\ actor.role \in {"teacher", "admin"}
     /\ evals[eid].status = "completed") =>
      /\ \A epatch \in UpdateEvaluationDTO :
           UpdateEvaluation_Get(h, SerialInputs, actor, eid, epatch)
           => Refused(h, "updateEvaluation", code(actor, eid))
      /\ \A overallFeedback \in {Undefined, "fb"} :
           CompleteEvaluation_Get(h, SerialInputs, actor, eid, overallFeedback)
           => Refused(h, "completeEvaluation", code(actor, eid))

C4_Code(actor, eid) ==
  IF evals[eid].evaluatorId = actor.uid \/ actor.role = "admin"
  THEN "InvalidStateTransition" ELSE "PermissionDenied"

C4_AlwaysInvalid(actor, eid) == "InvalidStateTransition"

\* C4 (amended): once an evaluation is completed, every update or complete
\* request on it fails and changes neither the evaluation nor the submission:
\* with InvalidStateTransition for the original evaluator and for an admin,
\* with PermissionDenied for another teacher.
C4_CompletedRefused == [][CompletedRefused(C4_Code)]_vars

\* C4 as stated: the original evaluator, another teacher and an admin are all
\* answered InvalidStateTransition.
C4_AsStated == [][CompletedRefused(C4_AlwaysInvalid)]_vars

\* an update or complete request on a completed evaluation was refused with
\* InvalidStateTransition
C4_Witness ==
  /\ last.op \in {"updateEvaluation", "completeEvaluation"}
  /\ last.code = "InvalidStateTransition"
  /\ \E e \in EvalIds : evals[e].status = "completed"

\* the evaluation carries the fallback feedback of the failure path
HasFallback(evaluation) ==
  /\ evaluation.status = "completed"
  /\ evaluation.overallFeedback =
       "AI evaluation encountered an error. Please try again or request a manual review."
  /\ evaluation.suggestions = <<"Request a manual review from your teacher">>

C5_Step(h) ==
  /\ (Leaves(h, "ai_engine") /\ pc'[h] = "ai_revert") =>
       /\ Len(evals') = Len(evals)
       /\ HasFallback(evals'[loc[h].evaluationId])
  /\ (Leaves(h, "ai_revert") /\ loc[h].submission.status = "submitted") =>
       /\ pc'[h] = "idle"
       /\ HasFallback(evals'[loc[h].evaluationId])
       /\ subs[loc[h].submissionId].exists =>
            subs'[loc[h].submissionId].status = "submitted"

\* C5: for a submission in submitted status whose AI evaluation was admitted
\* and whose engine call then fails, the failure path ends with the evaluation
\* completed, carrying the fallback overallFeedback and the single fallback
\* suggestion, and with the submission (if it is still stored) in status
\* submitted.
C5_EngineFailure == [][\A h \in Slots : C5_Step(h)]_vars

\* the failure path has run to its end: a completed evaluation with the
\* fallback feedback, its submission back in submitted, no handler in flight
C5_Witness ==
  /\ \A h \in Slots : pc[h] = "idle"
  /\ \E e \in EvalIds :
       /\ HasFallback(evals[e])
       /\ evals[e].evaluatorType = "ai"
       /\ subs[evals[e].submissionId].exists
       /\ subs[evals[e].submissionId].status = "submitted"

\* handler h answers a check-status read in this step
StatusAnswered(h) ==
  /\ last'.op = "aiStatus" /\ last'.code = "ok"
  /\ \/ pc[h] = "idle" /\ pc' = pc /\ nreq' = nreq + 1
     \/ Leaves(h, "aiStatus_getSubmission")

\* the engine call of the AI evaluate that created evaluation e is outstanding
EnginePending(e) ==
  \E g \in Slots : pc[g] = "ai_engine" /\ loc[g].evaluationId = e

C6_Admission(h) ==
  /\ Leaves(h, "aiEvaluate_set") =>
       /\ Len(evals') = Len(evals) + 1
       /\ evals'[Len(evals')].status = "in_progress"
       /\ evals'[Len(evals')].submissionId = loc[h].submissionId
       /\ loc'[h].evaluationId = Len(evals')
  /\ (Leaves(h, "aiEvaluate_updateSubmission") /\ subs[loc[h].submissionId].exists) =>
       /\ subs'[loc[h].submissionId].status = "under_review"
       /\ last' = [NoResponse EXCEPT !.op = "aiEvaluate", !.code = "ok",
                                     !.evaluationId = loc[h].evaluationId]
       \* the response is out and the engine has not been called
       /\ pc'[h] = "ai_engine"
       /\ evals' = evals
  \* nothing the engine does reaches the caller of the evaluate request
  /\ (pc[h] \in Background /\ pc'[h] # pc[h]) => last' = last

C6_ReadBeforeEngine(h) ==
  (StatusAnswered(h) /\ EnginePending(last'.evaluationId)) =>
    LET evaluation == evals[last'.evaluationId]
    IN /\ last'.status = evaluation.status
       /\ evaluation.status \in {"pending", "in_progress"} => ~last'.hasResults

\* while the engine call is outstanding only an update or complete request
\* writes to the evaluation
C6_OnlyRequestsWrite ==
  \A e \in EvalIds :
    (EnginePending(e) /\ EnginePending(e)' /\ evals'[e] # evals[e]) =>
      \E h \in Slots : \/ Leaves(h, "updateEvaluation_update")
                       \/ Leaves(h, "completeEvaluation_update")

\* C6 (amended): a successful AI evaluate creates an evaluation in in_progress,
\* sets the submission to under_review and returns the evaluationId before the
\* engine is called; no later step of the engine changes that response; and a
\* check-status read made before the engine call finishes reports the stored
\* status, which is in_progress with hasResults false unless an update or
\* complete request (open to an admin) has written to the evaluation since.
C6_AdmittedBeforeEngine ==
  [][/\ \A h \in Slots : C6_Admission(h) /\ C6_ReadBeforeEngine(h)
     /\ C6_OnlyRequestsWrite]_vars

\* C6 as stated: every check-status read made before the engine call finishes
\* reports in_progress with hasResults false.
C6_AsStated ==
  [][\A h \in Slots :
       (StatusAnswered(h) /\ EnginePending(last'.evaluationId)) =>
         (last'.status = "in_progress" /\ ~last'.hasResults)]_vars

\* a check-status read was answered in_progress, no results, while the engine
\* call of that evaluation is outstanding and the submission is under review
C6_Witness ==
  /\ last.op = "aiStatus" /\ last.code = "ok"
  /\ last.status = "in_progress" /\ ~last.hasResults
  /\ EnginePending(last.evaluationId)
  /\ subs[evals[last.evaluationId].submissionId].status = "under_review"

C7_Success(h) ==
  /\ (Leaves(h, "ai_engine") /\ pc'[h] = "ai_markEvaluated") =>
       LET e == loc[h].evaluationId
           result == evaluateSubmission(loc[h].submission.content)
       IN /\ Len(evals') = Len(evals)
          /\ \A o \in EvalIds \ {e} : evals'[o] = evals[o]
          /\ evals'[e].status = "completed"
          /\ evals'[e].completedAt
          /\ evals'[e].grammarFeedback = result.grammarFeedback
          /\ evals'[e].overallFeedback = result.overallFeedback
          /\ evals'[e].suggestions = result.suggestions
          /\ evals'[e].totalScore = result.totalScore
          /\ evals'[e].maxPossibleScore = result.maxPossibleScore
          /\ evals'[e].percentageScore = result.percentageScore
          /\ evals'[e].submissionId = evals[e].submissionId
          /\ evals'[e].evaluatorType = evals[e].evaluatorType
          /\ evals'[e].evaluatorId = evals[e].evaluatorId
  /\ (Leaves(h, "ai_markEvaluated") /\ subs[loc[h].submissionId].exists) =>
       /\ subs'[loc[h].submissionId].status = "evaluated"
       /\ pc'[h] = "idle"
  \* a read of an evaluation the engine's result was written to
  /\ (StatusAnswered(h) /\ evals[last'.evaluationId].grammarFeedback # Undefined) =>
       /\ last'.status = "completed"
       /\ last'.hasResults

\* C7: when the engine call succeeds the evaluation is updated in place to
\* completed with the feedback and score fields the engine returned and with
\* completedAt set, the submission (if it is still stored) becomes evaluated,
\* and a check-status read then reports completed with hasResults true.
C7_EngineSuccess == [][\A h \in Slots : C7_Success(h)]_vars

\* a check-status read reported completed with results for an evaluation that
\* carries the engine's result, its submission evaluated
C7_Witness ==
  /\ last.op = "aiStatus" /\ last.code = "ok"
  /\ last.status = "completed" /\ last.hasResults
  /\ evals[last.evaluationId].grammarFeedback # Undefined
  /\ evals[last.evaluationId].totalScore >= 70
  /\ subs[evals[last.evaluationId].submissionId].status = "evaluated"

\* the version numbers of sid's version documents are exactly 1..currentVersion,
\* each once
VersionsExact(sid) ==
  /\ {v.version : v \in VersionsOf(sid)} = 1..subs[sid].currentVersion
  /\ Cardinality(VersionsOf(sid)) = subs[sid].currentVersion

C8_Step(h) ==
  LET sid == loc[h].submissionId
  IN (/\ Leaves(h, "updateSubmission_update")
      /\ last'.code = "ok"
      /\ req[h].patch.content # Undefined
      /\ req[h].patch.content # subs[sid].content) =>
       /\ subs'[sid].currentVersion = subs[sid].currentVersion + 1
       /\ VersionsExact(sid)'

\* C8: every accepted update that changes the content (any new content value,
\* any permitted actor) increases currentVersion by exactly 1 and leaves the
\* version records carrying exactly the numbers 1..currentVersion, without
\* gaps or duplicates.
C8_VersionPerChange == [][\A h \in Slots : C8_Step(h)]_vars

\* C9: in every reachable state in which a submission is stored with its first
\* version written, its content equals the content of the version record whose
\* version is currentVersion, whatever patches (the empty string included)
\* were applied.
C9_ContentIsCurrentVersion ==
  \A sid \in SubIds :
    (/\ subs[sid].exists
     /\ \A h \in Slots : ~(pc[h] = "create_addVersion" /\ loc[h].submissionId = sid)) =>
      \E v \in VersionsOf(sid) : /\ v.version = subs[sid].currentVersion
                                 /\ v.content = subs[sid].content

\* the patch carries no content, or content equal to the stored content
C10_SameContent(patch, submission) ==
  patch.content = Undefined \/ patch.content = submission.content

C10_Step(h) ==
  /\ (/\ pc[h] = "idle"
      /\ pc'[h] \in {"updateSubmission_addVersion", "updateSubmission_update"}
      /\ C10_SameContent(req'[h].patch, subs[loc'[h].submissionId])) =>
       /\ pc'[h] = "updateSubmission_update"
       /\ vers' = vers /\ subs' = subs
  /\ (/\ Leaves(h, "updateSubmission_update")
      /\ last'.code = "ok"
      /\ C10_SameContent(req[h].patch, loc[h].submission)) =>
       LET sid == loc[h].submissionId
       IN /\ vers' = vers
          /\ subs'[sid].currentVersion = subs[sid].currentVersion
          /\ subs'[sid].content = subs[sid].content
          /\ subs'[sid].status = IF req[h].patch.status # Undefined
                                 THEN req[h].patch.status ELSE subs[sid].status

\* C10: an accepted update whose patch carries no content, or content equal to
\* the stored content, appends no version record and leaves currentVersion
\* unchanged, while the other supplied fields are applied.
C10_NoVersionWithoutChange == [][\A h \in Slots : C10_Step(h)]_vars

\* an update that supplied only a status was accepted: the status is applied
\* and the submission still has its single version record
C10_Witness ==
  /\ last.op = "updateSubmission" /\ last.code = "ok"
  /\ nextVer = 1
  /\ \E sid \in SubIds :
       /\ subs[sid].exists
       /\ subs[sid].status = "returned"
       /\ subs[sid].content = "a"
       /\ subs[sid].currentVersion = 1
       /\ Cardinality(VersionsOf(sid)) = 1

\* C11: in every reachable state, the states between the store writes of a
\* create request included, every stored submission has at least one version
\* record.
C11_AlwaysHasVersion ==
  \A sid \in SubIds : subs[sid].exists => VersionsOf(sid) # {}

C12_AtGet(h) ==
  \A actor \in Users, sid \in SubIds :
    (nreq' = nreq + 1 /\ SubmitSubmission_Get(h, SerialInputs, actor, sid)) =>
      IF /\ subs[sid].exists
         /\ subs[sid].studentId = actor.uid
         /\ subs[sid].status \in {"draft", "returned"}
      THEN /\ pc'[h] = "submitSubmission_update"
           /\ loc'[h].submissionId = sid
           /\ subs' = subs /\ vers' = vers
      ELSE /\ last'.op = "submitSubmission"
           /\ last'.code \in {"NotFound", "PermissionDenied", "InvalidStateTransition"}
           /\ pc'[h] = "idle"
           /\ subs' = subs /\ vers' = vers

C12_AtUpdate(h) ==
  Leaves(h, "submitSubmission_update") =>
    LET sid == loc[h].submissionId
    IN /\ last'.op = "submitSubmission" /\ last'.code = "ok"
       /\ pc'[h] = "idle"
       /\ subs'[sid].status = "submitted"
       /\ subs'[sid].submittedAt
       /\ subs'[sid].content = subs[sid].content
       /\ subs'[sid].currentVersion = subs[sid].currentVersion
       /\ subs'[sid].studentId = subs[sid].studentId
       /\ vers' = vers

\* C12: submit succeeds exactly when the actor owns the submission and its
\* status is draft or returned; on success the status becomes submitted and
\* submittedAt is stamped while content and currentVersion are unchanged;
\* otherwise submit fails and the submission is unchanged.
C12_Submit == [][\A h \in Slots : C12_AtGet(h) /\ C12_AtUpdate(h)]_vars

\* a submit of a returned submission succeeded: it is submitted, stamped, and
\* still holds its content and version
C12_Witness ==
  /\ last.op = "submitSubmission" /\ last.code = "ok"
  /\ \E sid \in SubIds :
       /\ subs[sid].exists
       /\ subs[sid].status = "submitted"
       /\ subs[sid].submittedAt
       /\ subs[sid].content = "a"
       /\ subs[sid].currentVersion = 1

C13_Step(h) ==
  \A actor \in Users, sid \in SubIds :
    (nreq' = nreq + 1 /\ subs[sid].exists /\ subs[sid].status = "draft") =>
      /\ \A evaluatorType \in {"teacher", "ai"}, rubricId \in {Undefined} \cup RubricIds :
           (/\ actor.role \in {"teacher", "admin"}
            /\ StartEvaluation_GetSubmission(h, SerialInputs, actor, sid,
                                             evaluatorType, rubricId))
           => Refused(h, "startEvaluation", "InvalidStateTransition")
      /\ (/\ actor.role = "student" => subs[sid].studentId = actor.uid
          /\ AIEvaluate_GetSubmission(h, SerialInputs, actor, sid))
         => Refused(h, "aiEvaluate", "InvalidStateTransition")

\* C13: a start of an evaluation of a draft submission, by an actor allowed to
\* start one (manual start: a teacher or an admin; AI evaluate: the owner, a
\* teacher or an admin), fails with InvalidStateTransition, creates no
\* evaluation record and leaves the submission unchanged.
C13_DraftNotEvaluated == [][\A h \in Slots : C13_Step(h)]_vars

\* a start on the draft was refused: the submission is still a draft and no
\* evaluation exists
C13_Witness ==
  /\ last.op \in {"startEvaluation", "aiEvaluate"}
  /\ last.code = "InvalidStateTransition"
  /\ evals = <<>>
  /\ \E sid \in SubIds : subs[sid].exists /\ subs[sid].status = "draft"

C14_Step(h) ==
  /\ Leaves(h, "startEvaluation_set") /\ Len(evals') = Len(evals) + 1 =>
       evals'[Len(evals')].status = "pending"
  /\ (Leaves(h, "startEvaluation_updateSubmission") /\ last'.code = "ok") =>
       LET sid == loc[h].submissionId
       IN subs'[sid].status = IF subs[sid].status = "submitted"
                              THEN "under_review" ELSE subs[sid].status

\* C14: a successful manual start creates the evaluation with status pending
\* and advances the submission to under_review only if it was submitted; a
\* submission in under_review, evaluated or returned keeps its status.
C14_AdvanceOnlyFromSubmitted == [][\A h \in Slots : C14_Step(h)]_vars

RECURSIVE WeightSum(_, _)
\* the sum of the first n weights of a criteria list
WeightSum(criteria, n) ==
  IF n = 0 THEN 0 ELSE WeightSum(criteria, n - 1) + criteria[n]

\* a criteria list a rubric may carry: not empty, weights summing to 100
WeightsOK(criteria) ==
  /\ criteria # NoCriteria
  /\ Len(criteria) > 0
  /\ WeightSum(criteria, Len(criteria)) = 100

\* the rubric request of handler h is refused as invalid and changes nothing
RubricRefused(h, op) ==
  /\ Refused(h, op, "ValidationError")
  /\ rubrics' = rubrics

\* handler h took a new request and either answered it at once as op or
\* went on to label
Took(h, op, label) ==
  /\ nreq' = nreq + 1
  /\ pc[h] = "idle"
  /\ \/ pc'[h] = label
     \/ pc' = pc /\ last'.op = op

C15_Create(h) ==
  Took(h, "createRubric", "createRubric_set") =>
  \A actor \in RubricInputs.actors, body \in CreateRubricDTO :
    (/\ actor.role \in {"teacher", "admin"}
     /\ CreateRubric_Validate(h, RubricInputs, actor, body)) =>
      IF ~WeightsOK(body.criteria) \/ body.title = Undefined
      THEN RubricRefused(h, "createRubric")
      ELSE /\ pc'[h] = "createRubric_set"
           /\ req'[h].rpatch.criteria = body.criteria

C15_Update(h) ==
  Took(h, "updateRubric", "updateRubric_update") =>
  \A actor \in RubricInputs.actors, rid \in RubricIds, rpatch \in UpdateRubricDTO :
    (/\ rubrics[rid].exists
     /\ actor.role = "admin" \/ (actor.role = "teacher" /\ rubrics[rid].teacherId = actor.uid)
     /\ rpatch.criteria # NoCriteria
     /\ UpdateRubric_Get(h, RubricInputs, actor, rid, rpatch)) =>
      IF ~WeightsOK(rpatch.criteria)
      THEN RubricRefused(h, "updateRubric")
      ELSE /\ pc'[h] = "updateRubric_update"
           /\ req'[h].rpatch.criteria = rpatch.criteria

C15_Written(h) ==
  /\ Leaves(h, "createRubric_set") =>
       /\ rubrics'[req[h].rubricId].exists
       /\ rubrics'[req[h].rubricId].criteria = req[h].rpatch.criteria
       /\ last'.op = "createRubric" /\ last'.code = "ok"
  /\ (Leaves(h, "updateRubric_update") /\ req[h].rpatch.criteria # NoCriteria) =>
       /\ rubrics'[req[h].rubricId].criteria = req[h].rpatch.criteria
       /\ last'.op = "updateRubric" /\ last'.code = "ok"

\* every stored rubric's criterion weights sum to 100
StoredWeightsOK ==
  \A rid \in RubricIds : rubrics[rid].exists => WeightsOK(rubrics[rid].criteria)

\* C15: a rubric create, or a rubric update whose patch includes criteria, by
\* an actor allowed to make it, is rejected with ValidationError and changes
\* nothing whenever the criteria list is empty or its weights do not sum to
\* exactly 100, for lists of up to MaxCriteria criteria; a list summing to 100
\* (a single criterion of weight 100 included) is accepted and stored; and
\* after every step every stored rubric's weights sum to 100.
C15_WeightsSumTo100 ==
  [][/\ \A h \in Slots : C15_Create(h) /\ C15_Update(h) /\ C15_Written(h)
     /\ StoredWeightsOK']_vars

\* a rubric with the single criterion of weight 100 was stored and a later
\* create or update was rejected as invalid
C15_Witness ==
  /\ last.op \in {"createRubric", "updateRubric"}
  /\ last.code = "ValidationError"
  /\ \E rid \in RubricIds : /\ rubrics[rid].exists
                            /\ rubrics[rid].criteria = <<100>>

\* a stored submission references the rubric
Referenced(rid) ==
  \E sid \in SubIds : subs[sid].exists /\ subs[sid].rubricId = rid

C16_Step(h) ==
  /\ Leaves(h, "deleteRubric_query") =>
       IF Referenced(req[h].rubricId)
       THEN /\ Refused(h, "deleteRubric", "ConflictError")
            /\ rubrics' = rubrics
       ELSE /\ pc'[h] = "deleteRubric_delete"
            /\ rubrics' = rubrics
  /\ Leaves(h, "deleteRubric_delete") =>
       /\ ~Referenced(req[h].rubricId)
       /\ ~rubrics'[req[h].rubricId].exists
       /\ last'.op = "deleteRubric" /\ last'.code = "ok"
  \* a rubric disappears only through the last step of a delete
  /\ \A rid \in RubricIds :
       (rubrics[rid].exists /\ ~rubrics'[rid].exists) =>
         (pc[h] = "deleteRubric_delete" \/ \E g \in Slots : pc[g] = "deleteRubric_delete")

\* C16: a delete of a rubric (by its owner or an admin) is rejected with
\* ConflictError, the rubric staying stored unchanged, whenever a stored
\* submission in any status has rubricId equal to the rubric's id; the delete
\* succeeds only when no submission references the rubric.
C16_DeleteBlockedWhileReferenced == [][\A h \in Slots : C16_Step(h)]_vars

\* the delete of the rubric was refused as a conflict while an evaluated
\* submission references it; the rubric is still stored
C16_Witness ==
  /\ last.op = "deleteRubric" /\ last.code = "ConflictError"
  /\ \E rid \in RubricIds, sid \in SubIds :
       /\ rubrics[rid].exists
       /\ subs[sid].exists
       /\ subs[sid].rubricId = rid
       /\ subs[sid].status = "evaluated"

\* the final state the claim gives both completing routes: evaluation eid
\* completed with completedAt set and the feedback supplied (the stored one
\* when none is supplied)
CompletedWith(eid, overallFeedback) ==
  /\ evals'[eid].status = "completed"
  /\ evals'[eid].completedAt
  /\ evals'[eid].overallFeedback =
       (IF overallFeedback # Undefined THEN overallFeedback
        ELSE evals[eid].overallFeedback)

C17_ByUpdate(h) ==
  /\ (Leaves(h, "updateEvaluation_updateSubmission")
      /\ CanUpdate(loc[h].evaluation.submissionId)) =>
       /\ subs'[loc[h].evaluation.submissionId].status = "evaluated"
       /\ pc'[h] = "updateEvaluation_update"
  /\ (Leaves(h, "updateEvaluation_update") /\ req[h].epatch.status = "completed") =>
       /\ CompletedWith(loc[h].evaluationId, req[h].epatch.overallFeedback)
       /\ last'.op = "updateEvaluation" /\ last'.code = "ok"

C17_ByComplete(h) ==
  /\ Leaves(h, "completeEvaluation_update") =>
       /\ CompletedWith(loc[h].evaluationId, req[h].overallFeedback)
       /\ pc'[h] = "completeEvaluation_updateSubmission"
  /\ (Leaves(h, "completeEvaluation_updateSubmission")
      /\ CanUpdate(loc[h].evaluation.submissionId)) =>
       /\ subs'[loc[h].evaluation.submissionId].status = "evaluated"
       /\ last'.op = "completeEvaluation" /\ last'.code = "ok"

\* C17: for an evaluation that is not completed and an actor allowed to grade
\* it, an update carrying status completed and the explicit complete, given
\* the same overallFeedback, both end with the evaluation completed,
\* completedAt set, the overallFeedback supplied (the stored one when none is
\* supplied) and the parent submission evaluated.
C17_CompleteEquivalence ==
  [][\A h \in Slots : C17_ByUpdate(h) /\ C17_ByComplete(h)]_vars

\* the number of thresholds of T that n has passed (strictly) or reached
Passed(n, T) == Cardinality({t \in T : n > t})

Reached(n, T) == Cardinality({t \in T : n >= t})

\* the score the heuristic gives a text of w words, p paragraphs, s sentences:
\* 70, 3 for each of 100 and 250 words passed, 4 for 500 words passed, 5 for
\* each of 3 and 5 paragraphs reached, 5 when the words per sentence (over at
\* least one sentence) lie strictly between 10 and 25
HeuristicScore(w, p, s) ==
  LET n == IF s = 0 THEN 1 ELSE s
  IN 70 + 3 * Passed(w, {100, 250}) + 4 * Passed(w, {500})
        + 5 * Reached(p, {3, 5})
        + (IF 10 * n < w /\ w < 25 * n THEN 5 ELSE 0)

C19_PercentageConsistent ==
  \A e \in EvalIds :
    evals[e].percentageScore # NoNumber =>
      /\ evals[e].totalScore # NoNumber
      /\ evals[e].maxPossibleScore # NoNumber
      /\ evals[e].percentageScore * evals[e].maxPossibleScore
           = 100 * evals[e].totalScore

ReadOps == {"listEvaluations", "getEvaluation", "submissionEvaluations"}

ReadLabels ==
  {"listEvaluations_submissions", "getEvaluation_getSubmission",
   "submissionEvaluations_query"}

RoleOf(uid) == (CHOOSE u \in Users : u.uid = uid).role

\* a read route sends evaluations to a caller at this step
ReadAnswered ==
  /\ last'.op \in ReadOps
  /\ last'.code = "ok"
  /\ \/ nreq' = nreq + 1 /\ pc' = pc
     \/ \E h \in Slots : pc[h] \in ReadLabels /\ pc'[h] = "idle"

\* the parent submission of evaluation e is stored and belongs to student uid
OwnedBy(e, uid) ==
  /\ e \in EvalIds
  /\ subs[evals[e].submissionId].exists
  /\ subs[evals[e].submissionId].studentId = uid

\* the evaluations that pass the filters of query q
Filtered(q) ==
  {e \in EvalIds :
     \A f \in {"submissionId", "evaluatorType", "status"} :
       q[f] = Undefined \/ evals[e][f] = q[f]}

C20_Student ==
  (ReadAnswered /\ RoleOf(last'.to) = "student") =>
    \A e \in last'.data : OwnedBy(e, last'.to)

C20_StaffList(h) ==
  Took(h, "listEvaluations", "listEvaluations_submissions") =>
    \A actor \in ReadInputs.actors, q \in EvaluationQueries :
      (actor.role # "student" /\ ListEvaluations_Query(h, ReadInputs, actor, q)) =>
        /\ last'.op = "listEvaluations" /\ last'.code = "ok"
        /\ last'.to = actor.uid
        /\ last'.total = Cardinality(Filtered(q))
        /\ last'.data \subseteq Filtered(q)
        /\ (q.page = 1 /\ Cardinality(Filtered(q)) <= q.limit) =>
             last'.data = Filtered(q)
        /\ (q.limit = 1 /\ q.page <= Cardinality(Filtered(q))) =>
             Cardinality(last'.data) = 1

C20_StaffGet(h) ==
  Took(h, "getEvaluation", "getEvaluation_getSubmission") =>
    \A actor \in ReadInputs.actors, eid \in EvalIds :
      (actor.role # "student" /\ GetEvaluation_Get(h, ReadInputs, actor, eid)) =>
        /\ last'.op = "getEvaluation" /\ last'.code = "ok"
        /\ last'.to = actor.uid
        /\ last'.data = {eid}

C20_StaffForSubmission(h) ==
  /\ Took(h, "submissionEvaluations", "submissionEvaluations_query") =>
       \A actor \in ReadInputs.actors, sid \in SubIds :
         (/\ actor.role # "student"
          /\ subs[sid].exists
          /\ SubmissionEvaluations_GetSubmission(h, ReadInputs, actor, sid)) =>
           /\ pc'[h] = "submissionEvaluations_query"
           /\ req'[h].uid = actor.uid
           /\ loc'[h].submissionId = sid
  /\ (Leaves(h, "submissionEvaluations_query") /\ RoleOf(req[h].uid) # "student") =>
       /\ last'.op = "submissionEvaluations" /\ last'.code = "ok"
       /\ last'.to = req[h].uid
       /\ last'.data = {e \in EvalIds : evals[e].submissionId = loc[h].submissionId}

\* C20: the evaluations a student is sent by the list, get and
\* get-for-submission routes all belong to submissions whose studentId is the
\* student's own id; a teacher or admin is sent every evaluation that matches
\* the filters (the requested page of them, and their full count, on the
\* list route).
C20_StudentsSeeOwnOnly ==
  [][/\ C20_Student
     /\ \A h \in Slots :
          C20_StaffList(h) /\ C20_StaffGet(h) /\ C20_StaffForSubmission(h)]_vars

\* student s2 listed the evaluations and was sent none, while the store holds
\* pending AI evaluations of s1's submission, which every query matches
C20_Witness ==
  /\ last.op = "listEvaluations" /\ last.code = "ok"
  /\ last.to = "s2" /\ last.total = 0
  /\ Len(evals) >= 1
  /\ \A e \in EvalIds : /\ evals[e].evaluatorType = "ai"
                        /\ evals[e].status = "pending"
                        /\ OwnedBy(e, "s1")

\* C21: once an evaluation record has status completed, none of its fields
\* changes in any later state, under every interleaving of update and complete
\* requests with each other and with the background AI completion of the same
\* evaluation.
C21_CompletedImmutable ==
  [][\A e \in EvalIds : evals[e].status = "completed" => evals'[e] = evals[e]]_vars

\* no handler is in the middle of a request
AllIdle == \A h \in Slots : pc[h] = "idle"

\* C22: after every interleaving of two accepted update requests that both
\* change the content of the same submission, currentVersion equals the number
\* of version records of the submission and no two of its version records
\* share a version number.
C22_VersionsCountedOnce ==
  \A sid \in SubIds :
    (AllIdle /\ subs[sid].exists) =>
      /\ subs[sid].currentVersion = Cardinality(VersionsOf(sid))
      /\ \A v1, v2 \in VersionsOf(sid) : v1.version = v2.version => v1 = v2

\* C23: a delete removes the submission and all of its version records as one
\* step: in no reachable state, under every interleaving of a delete with a
\* content-changing update of the same submission, does a version record
\* exist whose parent submission is no longer stored.
C23_NoOrphanVersion == \A v \in vers : subs[v.submissionId].exists

\* handler h has answered the evaluate request for evaluation e of submission
\* sid and waits for the engine
Admitted(h, e, sid) ==
  /\ pc[h] = "ai_engine"
  /\ loc[h].evaluationId = e
  /\ loc[h].submissionId = sid

\* the background task of handler h has ended with evaluation e completed and
\* submission sid not under review
Finished(h, e, sid) ==
  /\ pc[h] = "idle"
  /\ e \in EvalIds
  /\ evals[e].status = "completed"
  /\ subs[sid].status # "under_review"

\* C24: with the background task scheduled fairly and an engine call that
\* eventually returns or fails, every AI evaluation admitted by evaluate
\* eventually is completed with its submission out of under_review, whether
\* the client polls the status route or not.
C24_PipelineCompletes ==
  \A h \in Slots, e \in 1..MaxRequests, sid \in SubIds :
    Admitted(h, e, sid) ~> Finished(h, e, sid)

\* an admitted AI evaluation has run the failure path to its end without any
\* status request: completed with the fallback text, the submission submitted
C24_Witness ==
  /\ AllIdle
  /\ last.op = "aiEvaluate"
  /\ \E e \in EvalIds : /\ evals[e].status = "completed"
                        /\ evals[e].overallFeedback = FallbackFeedback
                        /\ subs[evals[e].submissionId].status = "submitted"

\* the awaits at which the evaluation pipeline writes a submission's status
PipelineWrites ==
  {"startEvaluation_updateSubmission", "updateEvaluation_updateSubmission",
   "completeEvaluation_updateSubmission", "aiEvaluate_updateSubmission",
   "ai_markEvaluated", "ai_revert"}

\* the step is a write of the evaluation pipeline
PipelineWrote == \E h \in Slots : pc[h] \in PipelineWrites /\ pc'[h] # pc[h]

\* C25: a stored submission's status is changed only by the evaluation
\* pipeline or by a student action on an editable submission: every other
\* change (create, update with any patch, submit) moves the status from draft
\* or returned to submitted, and under_review and evaluated are entered only
\* through an evaluation being started or completed.
C25_StatusLifecycle ==
  [][\A sid \in SubIds :
       (/\ subs[sid].exists /\ subs'[sid].exists
        /\ subs'[sid].status # subs[sid].status
        /\ ~PipelineWrote) =>
         /\ subs[sid].status \in {"draft", "returned"}
         /\ subs'[sid].status = "submitted"]_vars

\* the position of an evaluation status on the path pending, in_progress,
\* completed
StatusRank(status) ==
  IF status = "pending" THEN 1 ELSE IF status = "in_progress" THEN 2 ELSE 3

\* C26: an evaluation's status only moves forward along pending, in_progress,
\* completed: no start, update (with any accepted patch), complete or AI
\* completion moves an evaluation from in_progress back to pending or from
\* completed to a status that is not terminal.
C26_StatusForwardOnly ==
  [][\A e \in EvalIds :
       StatusRank(evals'[e].status) >= StatusRank(evals[e].status)]_vars

\* the content of version number n of submission sid, as a set (empty when no
\* such version record is stored)
VersionContent(sid, n) ==
  {v.content : v \in {x \in VersionsOf(sid) : x.version = n}}

\* the step stores a new evaluation
Creates == Len(evals') = Len(evals) + 1

C27_Created ==
  Creates =>
    LET new == evals'[Len(evals')]
    IN /\ subs[new.submissionId].exists
       /\ new.submissionVersion = subs[new.submissionId].currentVersion

C27_Engine(h) ==
  (Leaves(h, "aiEvaluate_set") /\ Creates) =>
    VersionContent(loc[h].submissionId, evals'[Len(evals')].submissionVersion)
      = {loc[h].submission.content}

\* C27: an evaluation's submissionVersion equals the submission's
\* currentVersion at the moment the evaluation is created and never changes
\* afterwards; in the AI path the content handed to the engine is the content
\* of that same version.
C27_VersionFrozen ==
  [][/\ \A e \in EvalIds : evals'[e].submissionVersion = evals[e].submissionVersion
     /\ C27_Created
     /\ \A h \in Slots : C27_Engine(h)]_vars

\* the first two parts of C27 alone
C27_FrozenOnly ==
  [][/\ \A e \in EvalIds : evals'[e].submissionVersion = evals[e].submissionVersion
     /\ C27_Created]_vars

\* C28: when the AI failure path has run, the submission's status equals the
\* status it had immediately before that AI evaluation was admitted, for every
\* status from which admission is possible and also when a teacher evaluation
\* of the same submission was completed in the meantime.
C28_RevertRestoresStatus ==
  [][\A h \in Slots :
       (Leaves(h, "ai_revert") /\ subs[loc[h].submissionId].exists) =>
         subs'[loc[h].submissionId].status = loc[h].submission.status]_vars

\* submission sid has an evaluation that is pending or in_progress
Outstanding(sid) ==
  \E e \in EvalIds : /\ evals[e].submissionId = sid
                     /\ evals[e].status \in {"pending", "in_progress"}

\* C29: in every state in which no request is between its arrival and its
\* response, a stored submission that has at least one evaluation in status
\* pending or in_progress has status under_review, also when a teacher
\* evaluation and an AI evaluation of it are outstanding together and one of
\* them completes or fails first.
C29_OutstandingMeansUnderReview ==
  \A sid \in SubIds :
    (Quiet /\ subs[sid].exists /\ Outstanding(sid)) =>
      subs[sid].status = "under_review"

\* C30: an evaluation created through POST /api/evaluations can be completed
\* by the teacher or admin who created it: once the evaluation is stored, the
\* checks of PUT /api/evaluations/:id and POST /api/evaluations/:id/complete
\* do not refuse its creator with PermissionDenied, for evaluatorType teacher
\* and for evaluatorType ai.
C30_CreatorMayComplete ==
  \A h \in Slots :
    pc[h] = "startEvaluation_updateSubmission" =>
      EvaluationAccess(CHOOSE u \in Users : u.uid = req[h].uid,
                       loc[h].evaluationId) # "PermissionDenied"
====
